---- MODULE Spec2Model ----
(***************************************************************************)
(* A model of mongoose-json-patch: JSONPatchMongoose.apply and the         *)
(* handlers it calls (json_patch_mongoose.js), run against a small         *)
(* Author / Book / Series store as set up by test/patch.js.                *)
(*                                                                         *)
(* Strings that the code takes apart (JSON pointers, mongoose dotted       *)
(* paths) are sequences of tokens: the separators "/" and ".", the append  *)
(* marker "-", digits, and field names.  Everything else follows the code: *)
(* documents live in a heap of in-memory objects (identity = handle), the  *)
(* database is `store`, and one call of apply() is stepped through its     *)
(* await points.                                                           *)
(***************************************************************************)
EXTENDS Integers, Sequences, FiniteSets, TLC

VARIABLES
    pc,          \* position of apply(): start, rules, dispatch, handler, resolve, exec, saving, done, failed
    err,         \* the error apply() threw ("" while none)
    root_id,     \* id of the document jsonPatch() was called on
    options,     \* this.options of the patcher
    call_options, \* the second argument the caller passed to jsonPatch ([given |-> FALSE] when none)
    patch,       \* the patch array (items are mutable: a middleware handler may rewrite item.value)
    i,           \* position of the for..of loop over patch (1-based)
    handler,     \* position in options.middleware of the middleware_handler selected for patch[i], 0 when none
    next,        \* the op and the path the closure next() of the current item holds (let {op, path} = item)
    heap,        \* in-memory documents: handle -> [type, id, f, dirty, pop]; handle 1 is this.document
    store,       \* the database: id -> [type, f]
    save_queue,  \* this.save_queue: sequence of handles
    path_info,   \* this.path_info: dotted path -> record
    pending,     \* saves issued by save() and not yet completed (positions of save_queue)
    log,         \* history of what the call did: resolve, exec, load, create, persist, reject, handler events
    calls        \* the calls in progress: which one runs (cur), which call assigned this.save_queue and
                 \* this.path_info of its patcher (sq_of, pi_of; 0: none yet), and the call that waits (parked)

vars == <<pc, err, root_id, options, call_options, patch, i, handler, next, heap, store, save_queue, path_info, pending, log, calls>>

----------------------------------------------------------------------------
(* Bounds of the model *)

MaxPatchLen == 2

----------------------------------------------------------------------------
(* Strings as token sequences *)

OneCharTokens == {"/", ".", "-", "0", "1", "2", "3", "4"}

\* the value of a digit token
IntOf == [t \in {"0", "1", "2", "3", "4"} |-> CASE t = "0" -> 0 [] t = "1" -> 1 [] t = "2" -> 2 [] t = "3" -> 3 [] t = "4" -> 4]

\* a field name without its first character (String.substring(1) on a pointer that starts with a name)
ChopFirst(name) == IF name = "xname" THEN "name" ELSE "?"

\* String.prototype.substring(1)
Substring1(s) ==
    IF s = <<>> THEN <<>>
    ELSE IF Head(s) \in OneCharTokens THEN Tail(s)
    ELSE <<ChopFirst(Head(s))>> \o Tail(s)

RECURSIVE SplitAcc(_, _, _)
SplitAcc(s, sep, cur) ==
    IF s = <<>> THEN <<cur>>
    ELSE IF Head(s) = sep THEN <<cur>> \o SplitAcc(Tail(s), sep, <<>>)
    ELSE SplitAcc(Tail(s), sep, Append(cur, Head(s)))

\* String.prototype.split(sep): "" gives [""], "/a" gives ["", "a"]
split(s, sep) == SplitAcc(s, sep, <<>>)

RECURSIVE join(_, _)
\* Array.prototype.join(sep)
join(parts, sep) ==
    IF parts = <<>> THEN <<>>
    ELSE IF Len(parts) = 1 THEN parts[1]
    ELSE parts[1] \o <<sep>> \o join(Tail(parts), sep)

\* Array.prototype.slice(a, b), 0-based, b exclusive
slice(parts, a, b) == SubSeq(parts, a + 1, b)

\* parseInt(part) is a number (not NaN): the string starts with a digit, or with a minus sign
\* and a digit
IsInt(part) ==
    /\ part # <<>>
    /\ \/ Head(part) \in DOMAIN IntOf
       \/ Len(part) >= 2 /\ part[1] = "-" /\ part[2] \in DOMAIN IntOf

RECURSIVE LeadingDigits(_, _)
\* the number the digits at the start of a string spell, after the digits already read (acc)
LeadingDigits(s, acc) ==
    IF s = <<>> \/ Head(s) \notin DOMAIN IntOf THEN acc
    ELSE LeadingDigits(Tail(s), 10 * acc + IntOf[Head(s)])

\* parseInt(part) for a part that IsInt: what follows the leading number is ignored
parseInt(part) ==
    IF Head(part) = "-" THEN 0 - LeadingDigits(Tail(part), 0) ELSE LeadingDigits(part, 0)

\* jsonPointerToMongoosePath: drop the first character, turn every "/" into "."
jsonPointerToMongoosePath(path) ==
    LET p == Substring1(path)
    IN  [n \in 1..Len(p) |-> IF p[n] = "/" THEN "." ELSE p[n]]

----------------------------------------------------------------------------
(* Values of the object graph *)

Undef == [k |-> "undef"]
Null == [k |-> "null"]
Absent == [k |-> "absent"]      \* a member the patch item does not have
Str(s) == [k |-> "str", s |-> s]
Oid(id) == [k |-> "oid", id |-> id]                     \* mongoose.Types.ObjectId
DocRef(h) == [k |-> "doc", h |-> h]                     \* a loaded mongoose.Model instance (heap handle)
Obj(f) == [k |-> "obj", f |-> f]                        \* nested object / object literal
Arr(items, ref) == [k |-> "arr", items |-> items, ref |-> ref]   \* MongooseArray; ref = options.type[0].ref or "none"

\* a test for emptiness that nothing meets
FalsyNever(v) == FALSE

\* JS falsiness, as tested by !current_object
Falsy(v) == v.k \in {"undef", "null", "absent"} \/ (v.k = "str" /\ v.s = "")

\* a member read from a patch item by destructuring: a missing member is undefined
Member(v) == IF v.k = "absent" THEN Undef ELSE v

----------------------------------------------------------------------------
(* The schemas of test/models: Author, Book, Series *)

\* a dotted path with its array positions (digit parts after the first part) replaced by "$",
\* as mongoose's Schema.path() resolves positional paths
Positional(rel) ==
    LET parts == split(rel, ".")
    IN  join([n \in 1..Len(parts) |->
                IF n > 1 /\ Len(parts[n]) = 1 /\ parts[n][1] \in DOMAIN IntOf THEN <<"$">> ELSE parts[n]], ".")

\* the paths a schema knows (a set() of any other path is dropped: strict mode)
SchemaPaths(type) ==
    CASE type = "Author" ->
            {<<"first_name">>, <<"last_name">>, <<"publisher">>, <<"address">>,
             <<"address", ".", "city">>, <<"address", ".", "zip">>,
             <<"phone_numbers">>, <<"phone_numbers", ".", "$">>}
      [] type = "Book" ->
            {<<"name">>, <<"author">>, <<"coauthor">>, <<"coauthor", ".", "author">>, <<"reference_id">>,
             <<"publisher">>}
      [] type = "Series" ->
            {<<"name">>, <<"books">>, <<"books", ".", "$">>}

\* relative_root.schema.path(rel).options.ref, "none" when the path is unknown or has no ref
SchemaRef(type, rel) ==
    LET p == Positional(rel)
    IN  CASE type = "Book" /\ p \in {<<"author">>, <<"coauthor", ".", "author">>} -> "Author"
          [] type = "Series" /\ p = <<"books", ".", "$">> -> "Book"
          [] OTHER -> "none"

\* the model a freshly constructed document of a type starts from
EmptyFields(type) ==
    CASE type = "Author" ->
            [first_name |-> Undef, last_name |-> Undef, publisher |-> Undef,
             address |-> Obj([city |-> Undef, zip |-> Undef]), phone_numbers |-> Arr(<<>>, "none")]
      [] type = "Book" ->
            [name |-> Undef, author |-> Undef, coauthor |-> Obj([author |-> Undef]), reference_id |-> Undef,
             publisher |-> Undef]
      [] type = "Series" ->
            [name |-> Undef, books |-> Arr(<<>>, "Book")]

\* the database after beforeEach("init documents") of test/patch.js (every id stored in a
\* document is the id of a stored document, and nothing in a run deletes documents)
Store0 ==
    [a1 |-> [type |-> "Author",
             f |-> [first_name |-> Str("JRR"), last_name |-> Str("Tolkien"), publisher |-> Undef,
                    address |-> Obj([city |-> Str("NoWhere"), zip |-> Undef]),
                    phone_numbers |-> Arr(<<Str("111"), Str("222")>>, "none")]],
     a2 |-> [type |-> "Author",
             f |-> [first_name |-> Str("Clay"), last_name |-> Str("Gulick"), publisher |-> Undef,
                    address |-> Obj([city |-> Str("NoWhere"), zip |-> Undef]),
                    phone_numbers |-> Arr(<<>>, "none")]],
     b1 |-> [type |-> "Book",
             f |-> [name |-> Str("Hobbit"), author |-> Oid("a1"),
                    coauthor |-> Obj([author |-> Oid("a2")]), reference_id |-> Oid("a1"),
                    publisher |-> Undef]],
     s1 |-> [type |-> "Series",
             f |-> [name |-> Str("LOTR"), books |-> Arr(<<Oid("b1")>>, "Book")]]]

\* ids given to documents created by `new model(value)`
NewIds == <<"n1", "n2", "n3", "n4">>

----------------------------------------------------------------------------
(* The mongoose collaborator, as the code uses it *)

\* Model.findOne / populate hydrating one stored document
LoadDoc(st, id) == [type |-> st[id].type, id |-> id, f |-> st[id].f, dirty |-> {}, pop |-> {}]

\* element n (0-based) of a JS array, undefined beyond its end
Elem(items, n) == IF n >= 0 /\ n < Len(items) THEN items[n + 1] ELSE Undef

\* obj[key] for a string key
Prop(hp, v, key) ==
    CASE v.k = "doc" -> IF Len(key) = 1 /\ key[1] \in DOMAIN hp[v.h].f THEN hp[v.h].f[key[1]] ELSE Undef
      [] v.k = "obj" -> IF Len(key) = 1 /\ key[1] \in DOMAIN v.f THEN v.f[key[1]] ELSE Undef
      [] v.k = "arr" -> IF Len(key) = 1 /\ key[1] \in DOMAIN IntOf THEN Elem(v.items, IntOf[key[1]]) ELSE Undef
      [] OTHER -> Undef

\* obj[n] for a number n (a part replaced by parseInt(part))
PropIdx(hp, v, n) ==
    IF v.k = "arr" THEN Elem(v.items, n) ELSE Undef

RECURSIVE GetPieces(_, _, _)
GetPieces(hp, obj, pieces) ==
    IF pieces = <<>> THEN obj
    ELSE IF obj.k \in {"undef", "null"} THEN Undef
    ELSE GetPieces(hp, Prop(hp, obj, Head(pieces)), Tail(pieces))

\* Document.prototype.get(path) on the document with handle h: walks the pieces of the dotted
\* path through nested objects, arrays and populated documents
DocGet(hp, h, path) == GetPieces(hp, DocRef(h), split(path, "."))

\* items with position n (0-based) set to val; positions skipped over become undefined
ArrAssign(items, n, val) ==
    [m \in 1..(IF n + 1 > Len(items) THEN n + 1 ELSE Len(items)) |->
        IF m = n + 1 THEN val ELSE IF m <= Len(items) THEN items[m] ELSE Undef]

RECURSIVE SetIn(_, _, _)
\* the container v with val stored at the location parts lead to
SetIn(v, parts, val) ==
    LET p == Head(parts)
        child == CASE v.k = "obj" /\ p[1] \in DOMAIN v.f -> v.f[p[1]]
                   [] v.k = "arr" -> Elem(v.items, IntOf[p[1]])
                   [] OTHER -> Undef
        new == IF Len(parts) = 1 THEN val
               ELSE IF child.k \in {"obj", "arr"} THEN SetIn(child, Tail(parts), val)
               ELSE SetIn(Obj(<<>>), Tail(parts), val)
    IN  CASE v.k = "obj" -> Obj([q \in DOMAIN v.f \cup {p[1]} |-> IF q = p[1] THEN new ELSE v.f[q]])
          [] v.k = "arr" -> Arr(ArrAssign(v.items, IntOf[p[1]], new), v.ref)
          [] OTHER -> v

\* the document d with val stored at its path rel, nothing else touched
RawSet(d, rel, val) == [d EXCEPT !.f = SetIn(Obj(d.f), split(rel, "."), val).f]

\* the first part of a dotted path: the top-level field a change marks modified
TopField(rel) == split(rel, ".")[1][1]

\* Document.prototype.set(path, val): a path the schema does not know is dropped (strict mode);
\* otherwise the value is stored (undefined unsets), the field is marked modified and the path
\* is no longer populated
DocSet(hp, h, rel, val) ==
    IF Positional(rel) \notin SchemaPaths(hp[h].type) THEN hp
    ELSE [hp EXCEPT ![h] = [RawSet(@, rel, val) EXCEPT !.dirty = @ \cup {TopField(rel)},
                                                       !.pop = @ \ {rel}]]

\* a document that reports no path as populated
PopulatedNever(hp, h, rel) == FALSE

\* Document.prototype.populated(path)
Populated(hp, h, rel) == rel \in hp[h].pop

\* an entry of the history: what happened (e), while patch item i was current, to which id / handle
Event(e, opi, id, h) == [e |-> e, i |-> opi, id |-> id, h |-> h]

\* the positions of a list of values that hold the ObjectId of a stored document
OidPositions(st, items) == {m \in 1..Len(items) : items[m].k = "oid" /\ items[m].id \in DOMAIN st}

\* the r-th (in list order) of a set of positions
NthOf(pos, r) == CHOOSE m \in pos : Cardinality({q \in pos : q <= m}) = r

\* the values with every ObjectId of a stored document replaced by a document loaded for it;
\* the loaded documents get the handles after `base`, in list order
PopulatedItems(st, items, base) ==
    [m \in 1..Len(items) |->
        IF m \in OidPositions(st, items)
        THEN DocRef(base + Cardinality({q \in OidPositions(st, items) : q <= m}))
        ELSE items[m]]

\* the documents loaded for them
LoadedDocs(st, items) ==
    [r \in 1..Cardinality(OidPositions(st, items)) |-> LoadDoc(st, items[NthOf(OidPositions(st, items), r)].id)]

LoadEvents(st, items, base, opi) ==
    [r \in 1..Cardinality(OidPositions(st, items)) |->
        Event("load", opi, items[NthOf(OidPositions(st, items), r)].id, base + r)]

\* the value v at a populated path after populate
PopulatedValue(st, v, base) ==
    IF v.k = "arr" THEN Arr(PopulatedItems(st, v.items, base), v.ref) ELSE PopulatedItems(st, <<v>>, base)[1]

\* the references a value holds: its elements when it is an array, else itself
RefsOf(v) == IF v.k = "arr" THEN v.items ELSE <<v>>

\* a value as populate() takes it: a document that is already loaded stands for its id
ToId(hp, v) == IF v.k = "doc" THEN Oid(hp[v.h].id) ELSE v
ToIds(hp, v) == IF v.k = "arr" THEN Arr([m \in 1..Len(v.items) |-> ToId(hp, v.items[m])], v.ref) ELSE ToId(hp, v)

\* Document.prototype.populate(rel) on the document with handle h, v being the ids at rel:
\* every id there (the value itself, or each element of the array) is replaced by a freshly
\* loaded document
PopulateValue(hp, st, h, rel, v, opi) ==
    [hp |-> [hp EXCEPT ![h] = [RawSet(@, rel, PopulatedValue(st, v, Len(hp))) EXCEPT !.pop = @ \cup {rel}]]
            \o LoadedDocs(st, RefsOf(v)),
     ev |-> LoadEvents(st, RefsOf(v), Len(hp), opi)]

Populate(hp, st, h, rel, opi) == PopulateValue(hp, st, h, rel, ToIds(hp, DocGet(hp, h, rel)), opi)

\* push without the includes test
PushAlways(sq, h) == Append(sq, h)

\* Array.prototype.includes, then push: the queue holds an object once
PushOnce(sq, h) == IF \E n \in 1..Len(sq) : sq[n] = h THEN sq ELSE Append(sq, h)

----------------------------------------------------------------------------
(* populatePath *)

PathInfo(abs, rel, root, document, type) ==
    [absolute_path |-> abs, relative_path |-> rel, root |-> root, document |-> document, type |-> type]

\* the locals of populatePath before its loop
Walk0(hp, sq) ==
    [i |-> 0, part |-> <<>>, isnum |-> FALSE, num |-> 0,
     relative_root |-> 1, relative_root_index |-> -1,
     absolute_path |-> <<>>, relative_path |-> <<>>, current_object |-> DocRef(1),
     path_info |-> <<>>, hp |-> hp, sq |-> sq, ev |-> <<>>, err |-> "", done |-> FALSE]

\* this.path_info[absolute_path] = {..., root: relative_root, document: current_object, type}
Memo(w, type) ==
    (w.absolute_path :> PathInfo(w.absolute_path, w.relative_path, w.relative_root, w.current_object, type))
        @@ w.path_info

\* the top of the loop body: if(i < parts.length) part = parts[i]
TakePart(w, parts) ==
    IF w.i < Len(parts) THEN [w EXCEPT !.part = parts[w.i + 1], !.isnum = FALSE] ELSE w

\* that branch with the root document left as relative_root and the loaded document not queued
EnterPopulatedKeepsRoot(w, p, doc) ==
    [w EXCEPT !.path_info = Memo(w, "root"),
              !.hp = p.hp, !.ev = w.ev \o p.ev,
              !.current_object = doc]

\* the branch for an ObjectId the schema marks as a ref, p being what populate() left: the loaded
\* document becomes relative_root and is queued
EnterPopulated(w, p, doc) ==
    [w EXCEPT !.path_info = Memo(w, "root"),
              !.hp = p.hp, !.ev = w.ev \o p.ev,
              !.current_object = doc,
              !.relative_root = doc.h,
              !.relative_root_index = w.i - 1,
              !.sq = PushOnce(w.sq, doc.h)]

\* the branch for an array of refs that is not populated yet, p being what populate() left:
\* populate() puts the loaded documents into the array object itself, which current_object is
PopulatedArray(w, p) ==
    [w EXCEPT !.path_info = Memo(w, "ref_array"), !.hp = p.hp, !.ev = w.ev \o p.ev,
              !.current_object = DocGet(p.hp, w.relative_root, w.relative_path)]

\* the branch for an array, its index part (if any) already parsed
ClassifyArray(w, st, opi) ==
    IF w.current_object.ref # "none"
    THEN IF ~Populated(w.hp, w.relative_root, w.relative_path)
         THEN PopulatedArray(w, Populate(w.hp, st, w.relative_root, w.relative_path, opi))
         ELSE [w EXCEPT !.path_info = Memo(w, "ref_array")]
    ELSE [w EXCEPT !.path_info = Memo(w, "array")]

\* the if / else-if chain of the loop body that classifies current_object
Classify(w, n, opts, st, opi) ==
    CASE w.current_object = DocRef(1) ->
            [w EXCEPT !.path_info = (w.absolute_path :> PathInfo(<<>>, <<>>, 1, DocRef(1), "root")) @@ w.path_info,
                      !.sq = PushOnce(w.sq, 1)]
      [] w.current_object # DocRef(1) /\ Falsy(w.current_object) ->
            IF w.i # n
            THEN [w EXCEPT !.err = "Attempt to operate on empty path - do you need to create the path first?"]
            ELSE [w EXCEPT !.path_info = Memo(w, "leaf")]
      [] w.current_object.k = "oid" ->
            IF opts.autopopulate /\ SchemaRef(w.hp[w.relative_root].type, w.relative_path) # "none"
            THEN EnterPopulated(w, Populate(w.hp, st, w.relative_root, w.relative_path, opi),
                                DocGet(Populate(w.hp, st, w.relative_root, w.relative_path, opi).hp,
                                       w.relative_root, w.relative_path))
            ELSE [w EXCEPT !.path_info = Memo(w, "leaf")]
      [] w.current_object # DocRef(1) /\ w.current_object.k = "doc" ->
            [w EXCEPT !.path_info = Memo(w, "root"),
                      !.relative_root = w.current_object.h,
                      !.relative_root_index = w.i - 1,
                      !.sq = PushOnce(w.sq, w.current_object.h)]
      [] w.current_object.k = "arr" ->
            IF w.i < n /\ w.part # <<"-">>
            THEN IF ~IsInt(w.part)
                 THEN [w EXCEPT !.err = "Invalid array index"]
                 ELSE ClassifyArray([w EXCEPT !.isnum = TRUE, !.num = parseInt(w.part)], st, opi)
            ELSE ClassifyArray(w, st, opi)
      [] OTHER ->
            [w EXCEPT !.path_info = Memo(w, "leaf")]

\* the bottom of the loop body: the two breaks, then the paths and current_object of the next part
Advance(w, parts) ==
    IF w.err # "" THEN w
    ELSE IF w.i = Len(parts) THEN [w EXCEPT !.done = TRUE]
    ELSE IF ~w.isnum /\ w.part = <<"-">> THEN [w EXCEPT !.done = TRUE]
    ELSE [w EXCEPT !.i = w.i + 1,
                   !.absolute_path = join(slice(parts, 0, w.i + 1), "."),
                   !.relative_path = join(slice(parts, w.relative_root_index + 1, w.i + 1), "."),
                   !.current_object = IF w.isnum THEN PropIdx(w.hp, w.current_object, w.num)
                                      ELSE Prop(w.hp, w.current_object, w.part)]

\* one iteration of the loop of populatePath
WalkStep(w, parts, opts, st, opi) ==
    Advance(Classify(TakePart(w, parts), Len(parts), opts, st, opi), parts)

RECURSIVE WalkLoop(_, _, _, _, _)
WalkLoop(w, parts, opts, st, opi) ==
    IF w.done \/ w.err # "" THEN w ELSE WalkLoop(WalkStep(w, parts, opts, st, opi), parts, opts, st, opi)

\* populatePath(path): the locals and the object state it leaves (path_info, heap, save_queue),
\* or the error it threw
populatePath(hp, sq, st, opts, path, opi) ==
    WalkLoop(Walk0(hp, sq), Tail(split(path, "/")), opts, st, opi)

----------------------------------------------------------------------------
(* setPath, walkPath and the handlers of the six verbs.  A handler yields the heap and the   *)
(* store it leaves, the events it caused, and the error it threw ("" when it returned).      *)

Result(hp, st, ev, e) == [hp |-> hp, st |-> st, ev |-> ev, err |-> e]

\* setPath calling set() with the whole path on this.document
setPathOnDocument(hp, pinfo, path, value) == [hp |-> DocSet(hp, 1, path, value), err |-> ""]

\* setPath(path, value): the record memoized for the path names the document to call set() on;
\* a path without a record makes `path_info.root` throw a TypeError
setPath(hp, pinfo, path, value) ==
    IF path \notin DOMAIN pinfo
    THEN [hp |-> hp, err |-> "TypeError: Cannot read properties of undefined (reading 'root')"]
    ELSE [hp |-> DocSet(hp, pinfo[path].root, pinfo[path].relative_path, value), err |-> ""]

\* the digit token of a number
TokOf(n) == IF \E t \in DOMAIN IntOf : IntOf[t] = n THEN CHOOSE t \in DOMAIN IntOf : IntOf[t] = n ELSE "?"

\* walkPath's `parent = parent[part]`: the value nxt is now the parent; a document is its own
\* place, a field of a document lives in that document, anything else deeper in the same one
StepInto(w, nxt, seg) ==
    CASE nxt.k = "doc" -> [w EXCEPT !.parent = nxt, !.h = nxt.h, !.rel = <<>>]
      [] nxt.k # "doc" /\ w.parent.k = "doc" -> [w EXCEPT !.parent = nxt, !.h = w.parent.h, !.rel = seg]
      [] OTHER -> [w EXCEPT !.parent = nxt, !.rel = w.rel \o <<".">> \o seg]

\* one iteration of the loop of walkPath
WalkPathStep(hp, w, part, last) ==
    IF w.parent.k = "arr"
    THEN IF ~IsInt(part) THEN [w EXCEPT !.err = "Invalid index on array"]
         ELSE IF last THEN [w EXCEPT !.stop = TRUE]
         ELSE StepInto(w, PropIdx(hp, w.parent, parseInt(part)), <<TokOf(parseInt(part))>>)
    ELSE IF last THEN [w EXCEPT !.stop = TRUE]
         ELSE IF w.parent.k \in {"undef", "null"}
         THEN [w EXCEPT !.err = "TypeError: Cannot read properties of undefined"]
         ELSE StepInto(w, Prop(hp, w.parent, part), part)

RECURSIVE WalkPathLoop(_, _, _, _, _)
\* the loop of walkPath; w.parent is the value reached, (w.h, w.rel) the document and the path
\* inside it where that value lives
WalkPathLoop(hp, parts, n, index, w) ==
    IF n >= index \/ w.err # "" \/ w.stop THEN w
    ELSE WalkPathLoop(hp, parts, n + 1, index, WalkPathStep(hp, w, parts[n + 1], n = Len(parts) - 1))

\* walkPath(path, index) for a negative index (an offset from the end of the path): the value
\* reached from this.document by property access
walkPath(hp, path, index) ==
    WalkPathLoop(hp, split(path, "."), 0, Len(split(path, ".")) + index,
                 [parent |-> DocRef(1), h |-> 1, rel |-> <<>>, err |-> "", stop |-> FALSE])

\* the array living at (h, rel) replaced by one with the given items; the owner is marked modified
ArrWrite(hp, h, rel, arr, items) ==
    [hp EXCEPT ![h] = [RawSet(@, rel, Arr(items, arr.ref)) EXCEPT !.dirty = @ \cup {TopField(rel)}]]

\* the id a value stands for when compared with a document
IdOf(hp, v) == CASE v.k = "doc" -> hp[v.h].id [] v.k = "oid" -> v.id [] OTHER -> ""

\* MongooseArray.pull(value) removes every member that equals the value (a document member
\* equals a value with the same _id)
PullMatches(hp, mem, v) ==
    IF mem.k = "doc" THEN IdOf(hp, v) = hp[mem.h].id ELSE mem = v

\* MongooseArray.pull(value)
pull(hp, items, v) == SelectSeq(items, LAMBDA mem : ~PullMatches(hp, mem, v))

\* Array.prototype.splice(index, 0, value): a start beyond the end is the end, a negative start
\* counts back from the end (and stops at the beginning)
splice(items, index, value) ==
    IF index > Len(items) THEN Append(items, value)
    ELSE IF index < 0 /\ Len(items) + index <= 0 THEN <<value>> \o items
    ELSE IF index < 0
    THEN SubSeq(items, 1, Len(items) + index) \o <<value>> \o SubSeq(items, Len(items) + index + 1, Len(items))
    ELSE SubSeq(items, 1, index) \o <<value>> \o SubSeq(items, index + 1, Len(items))

\* fields of a stored document: populated documents are stored as their ids
RECURSIVE Depopulate(_, _)
Depopulate(hp, v) ==
    CASE v.k = "doc" -> Oid(hp[v.h].id)
      [] v.k = "arr" -> Arr([m \in 1..Len(v.items) |-> Depopulate(hp, v.items[m])], v.ref)
      [] v.k = "obj" -> Obj([q \in DOMAIN v.f |-> Depopulate(hp, v.f[q])])
      [] OTHER -> v

\* Document.prototype.save(): writes the modified fields of the document to the store
\* (the whole document when the store does not have it yet)
SaveDoc(hp, st, h) ==
    (hp[h].id :> [type |-> hp[h].type,
                  f |-> [q \in DOMAIN hp[h].f |->
                           IF q \in hp[h].dirty \/ hp[h].id \notin DOMAIN st
                           THEN Depopulate(hp, hp[h].f[q]) ELSE st[hp[h].id].f[q]]]) @@ st

\* the document is clean after a save
MarkSaved(hp, h) == [hp EXCEPT ![h].dirty = {}]

\* the id of the next document constructed
NextNewId(st) == NewIds[Cardinality(DOMAIN st) - Cardinality(DOMAIN Store0) + 1]

\* new model(value): a document of the type with the members of value its schema knows
NewDoc(type, value, id) ==
    [type |-> type, id |-> id,
     f |-> [q \in DOMAIN EmptyFields(type) |->
              IF value.k = "obj" /\ q \in DOMAIN value.f THEN value.f[q] ELSE EmptyFields(type)[q]],
     dirty |-> DOMAIN EmptyFields(type), pop |-> {}]

\* value instanceof Object
IsObject(v) == v.k \in {"obj", "oid", "arr", "doc"}

\* mongoose.Types.ObjectId.isValid(value), for values that are objects
IsValidObjectId(v) == v.k = "oid"

\* what a handler yields once its setPath call has returned or thrown
AfterSet(r, st) == Result(r.hp, st, <<>>, r.err)

\* replace that reads a member the item does not have
replaceWithoutValue(hp, st, pinfo, opts, item, opi) ==
    AfterSet(setPath(hp, pinfo, jsonPointerToMongoosePath(item.path), Undef), st)

replace(hp, st, pinfo, opts, item, opi) ==
    AfterSet(setPath(hp, pinfo, jsonPointerToMongoosePath(item.path), Member(item.value)), st)

\* remove that sets a field that is not an array element to null
removeFromToNull(hp, st, pinfo, path, current_value, w) ==
    IF w.err # "" THEN Result(hp, st, <<>>, w.err)
    ELSE IF w.parent.k = "arr"
    THEN Result(ArrWrite(hp, w.h, w.rel, w.parent, pull(hp, w.parent.items, current_value)), st, <<>>, "")
    ELSE AfterSet(setPath(hp, pinfo, path, Null), st)

\* remove, with path converted, current_value read and walkPath(path, -1) done (w)
removeFrom(hp, st, pinfo, path, current_value, w) ==
    IF w.err # "" THEN Result(hp, st, <<>>, w.err)
    ELSE IF w.parent.k = "arr"
    THEN Result(ArrWrite(hp, w.h, w.rel, w.parent, pull(hp, w.parent.items, current_value)), st, <<>>, "")
    ELSE AfterSet(setPath(hp, pinfo, path, Undef), st)

removePath(hp, st, pinfo, path) ==
    removeFrom(hp, st, pinfo, path, DocGet(hp, 1, path), walkPath(hp, path, -1))

remove(hp, st, pinfo, opts, item, opi) ==
    removePath(hp, st, pinfo, jsonPointerToMongoosePath(item.path))

\* add without the ObjectId.isValid test: every object is taken for a new document
MustConstructAnyObject(parent, value) == parent.k = "arr" /\ parent.ref # "none" /\ IsObject(value)

\* add: the array holds references and the value is an object that is not an ObjectId
MustConstruct(parent, value) ==
    parent.k = "arr" /\ parent.ref # "none" /\ IsObject(value) /\ ~IsValidObjectId(value)

\* value = new model(value) without the save: the document is on the heap only
ConstructedUnsaved(hp, st, type, value, opi) ==
    [hp |-> Append(hp, NewDoc(type, value, NextNewId(st))),
     st |-> st,
     value |-> DocRef(Len(hp) + 1),
     ev |-> <<Event("create", opi, NextNewId(st), Len(hp) + 1)>>]

\* value = new model(value); await value.save(): the document is on the heap and in the store
Constructed(hp, st, type, value, opi) ==
    [hp |-> MarkSaved(Append(hp, NewDoc(type, value, NextNewId(st))), Len(hp) + 1),
     st |-> SaveDoc(Append(hp, NewDoc(type, value, NextNewId(st))), st, Len(hp) + 1),
     value |-> DocRef(Len(hp) + 1),
     ev |-> <<Event("create", opi, NextNewId(st), Len(hp) + 1)>>]

\* the tail of add without the test for "-": parseInt("-") is NaN and splice starts at 0
addInsertNoMarker(c, w, part) ==
    Result(ArrWrite(c.hp, w.h, w.rel, w.parent,
                    splice(w.parent.items, IF IsInt(part) THEN parseInt(part) ELSE 0, c.value)),
           c.st, c.ev, "")

\* the tail of add for an array parent: push for "-", else splice at parseInt(part)
\* (c holds the heap, the store and the value to insert)
addInsert(c, w, part) ==
    IF part = <<"-">>
    THEN Result(ArrWrite(c.hp, w.h, w.rel, w.parent, Append(w.parent.items, c.value)), c.st, c.ev, "")
    ELSE Result(ArrWrite(c.hp, w.h, w.rel, w.parent,
                         splice(w.parent.items, IF IsInt(part) THEN parseInt(part) ELSE 0, c.value)),
                c.st, c.ev, "")

\* add, with path converted and walkPath(path, -1) done (w)
addTo(hp, st, pinfo, opts, path, value, opi, w) ==
    IF w.err # "" THEN Result(hp, st, <<>>, w.err)
    ELSE IF w.parent.k = "arr"
    THEN IF MustConstruct(w.parent, value)
         THEN IF opts.autosave = FALSE
              THEN Result(hp, st, <<>>, "Autosave must be turned on to add array elements to populated path")
              ELSE addInsert(Constructed(hp, st, w.parent.ref, value, opi), w, split(path, ".")[Len(split(path, "."))])
         ELSE addInsert([hp |-> hp, st |-> st, value |-> value, ev |-> <<>>], w, split(path, ".")[Len(split(path, "."))])
    ELSE AfterSet(setPath(hp, pinfo, path, value), st)

addPath(hp, st, pinfo, opts, path, value, opi) ==
    addTo(hp, st, pinfo, opts, path, value, opi, walkPath(hp, path, -1))

add(hp, st, pinfo, opts, item, opi) ==
    addPath(hp, st, pinfo, opts, jsonPointerToMongoosePath(item.path), Member(item.value), opi)

copy(hp, st, pinfo, opts, item, opi) ==
    AfterSet(setPath(hp, pinfo, jsonPointerToMongoosePath(item.path),
                     DocGet(hp, 1, jsonPointerToMongoosePath(item.from))), st)

\* move after its first setPath (r1): this.setPath(from, null)
moveClear(r1, st, pinfo, from) ==
    IF r1.err # "" THEN Result(r1.hp, st, <<>>, r1.err)
    ELSE AfterSet(setPath(r1.hp, pinfo, from, Null), st)

move(hp, st, pinfo, opts, item, opi) ==
    moveClear(setPath(hp, pinfo, jsonPointerToMongoosePath(item.path),
                      DocGet(hp, 1, jsonPointerToMongoosePath(item.from))),
              st, pinfo, jsonPointerToMongoosePath(item.from))

\* assert.deepStrictEqual(existing_value, value) does not throw
deepStrictEqual(a, b) == a = b

\* what test(item) returns: false on a mismatch, undefined otherwise
testReturns(hp, item) ==
    IF deepStrictEqual(DocGet(hp, 1, item.path), Member(item.value)) THEN "undefined" ELSE "false"

\* test without the try block: the AssertionError of a mismatch leaves the handler
testThrows(hp, st, pinfo, opts, item, opi) ==
    Result(hp, st, <<>>, IF testReturns(hp, item) = "false" THEN "AssertionError" ELSE "")

test(hp, st, pinfo, opts, item, opi) == Result(hp, st, <<>>, "")

\* this[op](item)
Handler(op, hp, st, pinfo, opts, item, opi) ==
    CASE op = "replace" -> replace(hp, st, pinfo, opts, item, opi)
      [] op = "remove" -> remove(hp, st, pinfo, opts, item, opi)
      [] op = "add" -> add(hp, st, pinfo, opts, item, opi)
      [] op = "copy" -> copy(hp, st, pinfo, opts, item, opi)
      [] op = "move" -> move(hp, st, pinfo, opts, item, opi)
      [] op = "test" -> test(hp, st, pinfo, opts, item, opi)

----------------------------------------------------------------------------
(* Patch items, the validator, the rules and the middleware *)

NoFrom == <<"undefined">>        \* the `from` of an item that has none

Item(op, path, from, value) == [op |-> op, path |-> path, from |-> from, value |-> value]

Verbs == {"add", "remove", "replace", "move", "copy", "test"}

\* ajv's validate(patch) against schema.json (RFC 6902): every item has a known op and a path,
\* add / replace / test have a value, move / copy have a from
SchemaValid(p) ==
    \A n \in 1..Len(p) :
        /\ p[n].op \in Verbs
        /\ p[n].op \in {"add", "replace", "test"} => p[n].value.k # "absent"
        /\ p[n].op \in {"move", "copy"} => p[n].from # NoFrom

\* validate() reporting every patch as valid
validateAlways(p) == TRUE

\* JSONPatchMongoose.validate(patch)
validate(p) == SchemaValid(p)

\* a rule of json-patch-rules applies to an item: same path, and the item's op is one of the rule's
RuleMatches(rule, item) == rule.path = item.path /\ item.op \in rule.op

\* a blacklist that rejects a patch only when every one of its items matches a rule
RulesCheckEvery(rules, mode, p) ==
    IF mode = "whitelist"
    THEN \A n \in 1..Len(p) : \E r \in 1..Len(rules) : RuleMatches(rules[r], p[n])
    ELSE p = <<>> \/ \E n \in 1..Len(p) : \A r \in 1..Len(rules) : ~RuleMatches(rules[r], p[n])

\* a whitelist that lets a patch through when one of its items matches a rule
RulesCheckSome(rules, mode, p) ==
    IF mode = "whitelist"
    THEN p = <<>> \/ \E n \in 1..Len(p) : \E r \in 1..Len(rules) : RuleMatches(rules[r], p[n])
    ELSE \A n \in 1..Len(p) : \A r \in 1..Len(rules) : ~RuleMatches(rules[r], p[n])

\* JSONPatchRules.check(patch): in blacklist mode no item may match a rule, in whitelist mode
\* every item must match one
RulesCheck(rules, mode, p) ==
    IF mode = "whitelist"
    THEN \A n \in 1..Len(p) : \E r \in 1..Len(rules) : RuleMatches(rules[r], p[n])
    ELSE \A n \in 1..Len(p) : \A r \in 1..Len(rules) : ~RuleMatches(rules[r], p[n])

\* apply() without its rule check
rulesPassUnchecked(opts, p) == TRUE

\* a rule check that also holds the end of every pointer against the blacklist the referenced
\* types are registered with (/publisher)
rulesPassReferenced(opts, p) ==
    /\ opts.has_rules => RulesCheck(opts.rules, opts.rules_mode, p)
    /\ \A n \in 1..Len(p) :
           ~(Len(p[n].path) > 2 /\ SubSeq(p[n].path, Len(p[n].path) - 1, Len(p[n].path)) = <<"/", "publisher">>)

\* the rule check of apply(): only a patcher constructed with rules has patch_rules
rulesPass(opts, p) == opts.has_rules => RulesCheck(opts.rules, opts.rules_mode, p)

\* new RegExp(pattern).exec(path) finds a match: the pattern (no metacharacters) occurs in the path
RegexMatches(pattern, path) ==
    \E a \in 0..(Len(path) - Len(pattern)) : SubSeq(path, a + 1, a + Len(pattern)) = pattern

\* middleware.op is an array that includes op, or is op
OpMatches(mw, op) == op \in mw.op

\* the loop without its break: the last middleware that matches wins
middlewareForLast(opts, item) ==
    IF \A m \in 1..Len(opts.middleware) :
           ~(OpMatches(opts.middleware[m], item.op) /\ RegexMatches(opts.middleware[m].path, item.path))
    THEN 0
    ELSE CHOOSE m \in 1..Len(opts.middleware) :
             /\ OpMatches(opts.middleware[m], item.op) /\ RegexMatches(opts.middleware[m].path, item.path)
             /\ \A q \in (m + 1)..Len(opts.middleware) :
                    ~(OpMatches(opts.middleware[q], item.op) /\ RegexMatches(opts.middleware[q].path, item.path))

\* the loop over this.options.middleware: the position of the first middleware whose op and
\* path match the item, 0 when there is none
middlewareFor(opts, item) ==
    LET hits == {m \in 1..Len(opts.middleware) :
                    OpMatches(opts.middleware[m], item.op) /\ RegexMatches(opts.middleware[m].path, item.path)}
    IN  IF hits = {} THEN 0 ELSE CHOOSE m \in hits : \A q \in hits : m <= q

----------------------------------------------------------------------------
(* The calls the model explores: documents, options and patches of test/patch.js *)

P1(a) == <<"/", a>>
P2(a, b) == <<"/", a, "/", b>>
P3(a, b, c) == <<"/", a, "/", b, "/", c>>

\* the rules the test models pass to the plugin: a blacklist of /publisher (none for Series)
ModelRules(type) ==
    IF type = "Series" THEN <<>> ELSE <<[path |-> P1("publisher"), op |-> Verbs]>>

\* the middleware of the tests: one handler rewrites item.value and calls next, one (on a path
\* the schema does not have) returns without calling next; a third rule matches what the first
\* matches and more
TestMiddleware ==
    <<[op |-> {"add"}, path |-> P1("first_name"), handler |-> "set_value_next"],
      [op |-> {"add"}, path |-> P2("payment_methods", "-"), handler |-> "no_next"],
      [op |-> {"add", "remove"}, path |-> P1("first_name"), handler |-> "no_next"]>>

\* a handler that rewrites the path and the op of the item it is given and calls next
RewritingMiddleware ==
    <<[op |-> {"replace"}, path |-> P2("address", "city"), handler |-> "set_path_next"]>>

\* a whitelist as in the README's example of a restricted user: two paths of the author may be
\* written, one of them by replace only
RestrictedRules ==
    <<[path |-> P1("first_name"), op |-> {"replace"}],
      [path |-> P2("phone_numbers", "-"), op |-> Verbs]>>

\* options with rules of their own applied as a whitelist
Whitelisting(opts, rules) == [opts EXCEPT !.rules = rules, !.rules_mode = "whitelist"]

\* a blacklist with a rule for a field of an embedded object
NestedRules == <<[path |-> P2("coauthor", "author"), op |-> Verbs]>>

\* options with rules of their own applied as a blacklist
WithBlacklist(opts, rules) == [opts EXCEPT !.rules = rules, !.rules_mode = "blacklist"]

Options(type, autosave, autopopulate, middleware) ==
    [autosave |-> autosave, autopopulate |-> autopopulate, has_rules |-> TRUE,
     rules |-> ModelRules(type), rules_mode |-> "blacklist", middleware |-> middleware]

Configs(type) ==
    CASE type = "Author" -> {Options(type, TRUE, TRUE, <<>>), Options(type, FALSE, TRUE, <<>>),
                             Options(type, TRUE, TRUE, TestMiddleware),
                             Options(type, TRUE, TRUE, RewritingMiddleware),
                             Whitelisting(Options(type, TRUE, TRUE, <<>>), RestrictedRules)}
      [] type = "Book" -> {Options(type, TRUE, TRUE, <<>>), Options(type, TRUE, FALSE, <<>>),
                           WithBlacklist(Options(type, TRUE, TRUE, <<>>), NestedRules)}
      [] type = "Series" -> {Options(type, TRUE, TRUE, <<>>), Options(type, FALSE, TRUE, <<>>),
                             Options(type, TRUE, FALSE, <<>>)}

\* what callers pass as the second argument of jsonPatch: nothing, or the options of the tests
NoCallOptions == [given |-> FALSE]

CallOptions(type) ==
    CASE type = "Author" -> {NoCallOptions, [given |-> TRUE, autosave |-> TRUE, middleware |-> TestMiddleware]}
      [] type = "Book" -> {NoCallOptions, [given |-> TRUE, autosave |-> TRUE, autopopulate |-> FALSE]}
      [] type = "Series" -> {NoCallOptions}

\* schema.methods.jsonPatch = async function(patch): the patcher is constructed with the options
\* the plugin was registered with; the function has no parameter for a second argument
PatcherOptions(plugin_options, call_opts) == plugin_options

Roots == {"a1", "b1", "s1"}

\* the patch items tried on a document of each type
ItemPool(type) ==
    CASE type = "Author" ->
            {Item("replace", P1("first_name"), NoFrom, Str("Jimmy")),
             Item("add", P1("first_name"), NoFrom, Str("Jimmy")),
             Item("remove", P1("first_name"), NoFrom, Absent),
             Item("replace", P1("publisher"), NoFrom, Str("Random House")),
             Item("add", P2("phone_numbers", "-"), NoFrom, Str("111")),
             Item("add", P2("phone_numbers", "1"), NoFrom, Str("333")),
             Item("add", P2("phone_numbers", "4"), NoFrom, Str("555")),
             Item("remove", P2("phone_numbers", "0"), NoFrom, Absent),
             Item("add", <<"/", "phone_numbers", "/", "-", "1">>, NoFrom, Str("666")),
             Item("remove", P2("phone_numbers", "first"), NoFrom, Absent),
             Item("replace", P2("phone_numbers", "1"), NoFrom, Str("444")),
             Item("replace", P2("address", "city"), NoFrom, Str("New York")),
             Item("replace", P2("address", "zip"), NoFrom, Str("10001")),
             Item("replace", P3("address", "zip", "plus4"), NoFrom, Str("0000")),
             Item("replace", P1("last_name"), NoFrom, Absent),
             Item("move", P1("last_name"), P1("first_name"), Absent),
             Item("copy", P1("last_name"), P1("first_name"), Absent),
             Item("test", P1("first_name"), NoFrom, Str("Jimmy")),
             Item("add", P2("payment_methods", "-"), NoFrom, Str("4242"))}
      [] type = "Book" ->
            {Item("replace", P2("author", "first_name"), NoFrom, Str("James")),
             Item("add", P3("coauthor", "author", "first_name"), NoFrom, Str("Clayton")),
             Item("replace", P1("name"), NoFrom, Str("There and Back Again")),
             Item("remove", P2("author", "last_name"), NoFrom, Absent),
             Item("replace", P1("publisher"), NoFrom, Str("Random House")),
             Item("copy", P1("name"), P2("author", "first_name"), Absent),
             Item("replace", P1("reference_id"), NoFrom, Oid("a2")),
             Item("replace", P2("coauthor", "author"), NoFrom, Oid("a1")),
             Item("replace", <<"/", "coauthor", ".", "author">>, NoFrom, Oid("a1")),
             Item("replace", <<"/", "author", ".", "first_name">>, NoFrom, Str("John")),
             Item("replace", P3("author", "address", "zip"), NoFrom, Str("10001")),
             Item("replace", P3("author", "publisher", "name"), NoFrom, Str("Allen")),
             Item("replace", P2("author", "publisher"), NoFrom, Str("Random House")),
             Item("replace", <<"xname">>, NoFrom, Str("There and Back Again")),
             Item("copy", P1("name"), <<"xname">>, Absent)}
      [] type = "Series" ->
            {Item("add", P2("books", "-"), NoFrom, Obj([name |-> Str("Fellowship")])),
             Item("add", P2("books", "0"), NoFrom, Obj([name |-> Str("Two Towers")])),
             Item("add", P2("books", "-"), NoFrom, Oid("b1")),
             Item("replace", P3("books", "0", "name"), NoFrom, Str("Return Of The King")),
             Item("replace", P3("books", "1", "name"), NoFrom, Str("Silmarillion")),
             Item("remove", P2("books", "0"), NoFrom, Absent),
             Item("add", P2("books", "last"), NoFrom, Obj([name |-> Str("Fellowship")])),
             Item("add", P3("books", "-", "name"), NoFrom, Obj([name |-> Str("Fellowship")]))}

\* sequences of at most n items of a pool
PatchesUpTo(pool, n) == UNION {[1..m -> pool] : m \in 0..n}

----------------------------------------------------------------------------
(* apply(patch, document) *)

\* document = await Model.findOne({_id}); await document.jsonPatch(patch)
Init ==
    /\ root_id \in Roots
    /\ call_options \in CallOptions(Store0[root_id].type)
    /\ \E plugin_options \in Configs(Store0[root_id].type) :
           options = PatcherOptions(plugin_options, call_options)
    /\ patch \in PatchesUpTo(ItemPool(Store0[root_id].type), MaxPatchLen)
    /\ heap = <<LoadDoc(Store0, root_id)>>
    /\ store = Store0
    /\ save_queue = <<>>
    /\ path_info = <<>>
    /\ pending = {}
    /\ log = <<>>
    /\ i = 1
    /\ handler = 0
    /\ next = [op |-> "", path |-> <<>>]
    /\ pc = "start"
    /\ err = ""
    /\ calls = [cur |-> 1, sq_of |-> 0, pi_of |-> 0, parked |-> <<>>]

\* if(!this.validate(patch)) throw
Validate ==
    /\ pc = "start"
    /\ IF validate(patch)
       THEN pc' = "rules" /\ err' = err
       ELSE pc' = "failed" /\ err' = "validation"
    /\ UNCHANGED <<calls, call_options, next, root_id, options, patch, i, handler, heap, store, save_queue, path_info, pending, log>>

\* if(this.patch_rules) if(!this.patch_rules.check(patch)) throw; then the loop is set up
CheckRules ==
    /\ pc = "rules"
    /\ IF rulesPass(options, patch)
       THEN pc' = "dispatch" /\ err' = err /\ save_queue' = <<1>>
                           /\ calls' = [calls EXCEPT !.sq_of = calls.cur]
       ELSE pc' = "failed" /\ err' = "Patch failed rule check" /\ save_queue' = save_queue
                         /\ calls' = calls
    /\ UNCHANGED <<call_options, next, root_id, options, patch, i, handler, heap, store, path_info, pending, log>>

\* a loop that steps over an item
NextItemSkips(n) == n + 2

\* the loop moves on to the next item
NextItem(n) == n + 1

\* the head of the loop body: let {op, path} = item, then look for a middleware that matches
\* patch[i]
Dispatch ==
    /\ pc = "dispatch"
    /\ i <= Len(patch)
    /\ next' = [op |-> patch[i].op, path |-> patch[i].path]
    /\ handler' = middlewareFor(options, patch[i])
    /\ pc' = IF handler' # 0 THEN "handler" ELSE "resolve"
    /\ UNCHANGED <<calls, call_options, err, root_id, options, patch, i, heap, store, save_queue, path_info, pending, log>>

\* what a handler leaves of the item it was given: one handler rewrites item.value, one rewrites
\* item.path and item.op, the others leave the item alone
HandledItem(kind, item) ==
    CASE kind = "set_value_next" -> [item EXCEPT !.value = Str("Jimmie")]
      [] kind = "set_path_next" -> [item EXCEPT !.path = P2("address", "zip"), !.op = "remove"]
      [] OTHER -> item

\* the handler calls next()
CallsNext(kind) == kind \in {"set_value_next", "set_path_next"}

\* the handler awaited and next() called after it whatever the handler did
MiddlewareThenDefault ==
    /\ pc = "handler"
    /\ log' = Append(log, Event("handler", i, "", handler))
    /\ patch' = [patch EXCEPT ![i] = HandledItem(options.middleware[handler].handler, @)]
    /\ pc' = "resolve"
    /\ i' = i
    /\ UNCHANGED <<calls, call_options, next, err, root_id, options, handler, heap, store, save_queue, path_info, pending>>

\* await middleware_handler(document, item, next, matches), with the handlers of the tests
\* and one that rewrites the item
Middleware ==
    /\ pc = "handler"
    /\ log' = Append(log, Event("handler", i, "", handler))
    /\ patch' = [patch EXCEPT ![i] = HandledItem(options.middleware[handler].handler, @)]
    /\ IF CallsNext(options.middleware[handler].handler)
       THEN /\ pc' = "resolve"
            /\ i' = i
       ELSE /\ pc' = "dispatch"
            /\ i' = NextItem(i)
    /\ UNCHANGED <<calls, call_options, next, err, root_id, options, handler, heap, store, save_queue, path_info, pending>>

\* next(), first half: await this.populatePath(path)
Resolve ==
    /\ pc = "resolve"
    /\ LET w == populatePath(heap, save_queue, store, options, next.path, i)
       IN  /\ heap' = w.hp
           /\ save_queue' = w.sq
           /\ path_info' = w.path_info
           /\ calls' = [calls EXCEPT !.pi_of = calls.cur]
           /\ log' = Append(log, Event("resolve", i, "", 0)) \o w.ev
           /\ IF w.err # ""
              THEN pc' = "failed" /\ err' = w.err
              ELSE pc' = "exec" /\ err' = err
    /\ UNCHANGED <<call_options, next, root_id, options, patch, i, handler, store, pending>>

\* the second half of next() inside a try block that swallows the error
ExecuteSwallow ==
    /\ pc = "exec"
    /\ LET r == Handler(next.op, heap, store, path_info, options, patch[i], i)
       IN  /\ heap' = r.hp
           /\ store' = r.st
           /\ log' = log \o r.ev \o <<Event("exec", i, "", 0)>>
           /\ pc' = "dispatch" /\ err' = r.err /\ i' = NextItem(i)
    /\ UNCHANGED <<calls, call_options, next, root_id, options, patch, handler, save_queue, path_info, pending>>

\* next(), second half: await this[op](item)
Execute ==
    /\ pc = "exec"
    /\ LET r == Handler(next.op, heap, store, path_info, options, patch[i], i)
       IN  /\ heap' = r.hp
           /\ store' = r.st
           /\ log' = log \o r.ev \o <<Event("exec", i, "", 0)>>
           /\ IF r.err # ""
              THEN pc' = "failed" /\ err' = r.err /\ i' = i
              ELSE pc' = "dispatch" /\ err' = err /\ i' = NextItem(i)
    /\ UNCHANGED <<calls, call_options, next, root_id, options, patch, handler, save_queue, path_info, pending>>

\* after the loop: if(this.options.autosave) await this.save(), which calls save() on every
\* queued document before it awaits any of them
LoopEnd ==
    /\ pc = "dispatch"
    /\ i > Len(patch)
    /\ IF options.autosave
       THEN pc' = "saving" /\ pending' = 1..Len(save_queue)
       ELSE pc' = "done" /\ pending' = pending
    /\ UNCHANGED <<calls, call_options, next, err, root_id, options, patch, i, handler, heap, store, save_queue, path_info, log>>

\* the error a save that the database refuses rejects with
SaveError == "SaveError"

\* one of the saves issued by save() completes (apply() may have thrown already, on the rejection
\* of another save)
Persist ==
    /\ pc \in {"saving", "failed"}
    /\ \E n \in pending :
        /\ store' = SaveDoc(heap, store, save_queue[n])
        /\ heap' = MarkSaved(heap, save_queue[n])
        /\ log' = Append(log, Event("persist", i, heap[save_queue[n]].id, save_queue[n]))
        /\ pending' = pending \ {n}
    /\ UNCHANGED <<calls, call_options, next, pc, err, root_id, options, patch, i, handler, save_queue, path_info>>

\* a rejection that calls off the saves still in flight
PersistRejectedCancels ==
    /\ pc \in {"saving", "failed"}
    /\ \E n \in pending :
        log' = Append(log, Event("reject", i, heap[save_queue[n]].id, save_queue[n]))
    /\ pending' = {}
    /\ pc' = "failed"
    /\ err' = IF pc = "saving" THEN SaveError ELSE err
    /\ UNCHANGED <<calls, call_options, next, root_id, options, patch, i, handler, heap, store, save_queue, path_info>>

\* one of the saves issued by save() is rejected: nothing is stored for its document; on the
\* first rejection Promise.all rejects and apply() throws that error, the saves still in flight
\* go on
PersistRejected ==
    /\ pc \in {"saving", "failed"}
    /\ \E n \in pending :
        /\ log' = Append(log, Event("reject", i, heap[save_queue[n]].id, save_queue[n]))
        /\ pending' = pending \ {n}
    /\ pc' = "failed"
    /\ err' = IF pc = "saving" THEN SaveError ELSE err
    /\ UNCHANGED <<calls, call_options, next, root_id, options, patch, i, handler, heap, store, save_queue, path_info>>

\* Promise.all resolves: apply() returns
SaveDone ==
    /\ pc = "saving"
    /\ pending = {}
    /\ pc' = "done"
    /\ UNCHANGED <<calls, call_options, next, err, root_id, options, patch, i, handler, heap, store, save_queue, path_info, pending, log>>

Next ==
    \/ Validate
    \/ CheckRules
    \/ Dispatch
    \/ Middleware
    \/ Resolve
    \/ Execute
    \/ LoopEnd
    \/ Persist
    \/ PersistRejected
    \/ SaveDone

Spec == Init /\ [][Next]_vars

----------------------------------------------------------------------------
(* Two calls of jsonPatch in one process *)

\* one patcher used by every call
PatcherShared(c) == 1

\* let patcher = new JSONPatchMongoose(schema, options): the patcher call c works with
PatcherOf(c) == c

\* the calls two callers make: a root, the options its schema's plugin was registered with, and
\* a patch
CallInputs ==
    {[root_id |-> "b1", options |-> Options("Book", TRUE, TRUE, <<>>),
      patch |-> <<Item("replace", P2("author", "first_name"), NoFrom, Str("James")),
                  Item("replace", P1("name"), NoFrom, Str("There and Back Again"))>>],
     [root_id |-> "s1", options |-> Options("Series", TRUE, TRUE, <<>>),
      patch |-> <<Item("replace", P3("books", "0", "name"), NoFrom, Str("Return Of The King"))>>],
     [root_id |-> "a1", options |-> Options("Author", TRUE, TRUE, TestMiddleware),
      patch |-> <<Item("add", P1("first_name"), NoFrom, Str("Jimmy")),
                  Item("replace", P2("address", "city"), NoFrom, Str("New York"))>>],
     [root_id |-> "a1", options |-> Options("Author", FALSE, TRUE, <<>>),
      patch |-> <<Item("replace", P1("last_name"), NoFrom, Absent)>>]}

\* a call that has not started: its document is loaded, its patcher is constructed
Fresh(inp) ==
    [pc |-> "start", err |-> "", root_id |-> inp.root_id, options |-> inp.options,
     call_options |-> NoCallOptions, patch |-> inp.patch, i |-> 1, handler |-> 0,
     next |-> [op |-> "", path |-> <<>>], heap |-> <<LoadDoc(Store0, inp.root_id)>>,
     pending |-> {}, log |-> <<>>, save_queue |-> <<>>, path_info |-> <<>>, sq_of |-> 0, pi_of |-> 0]

\* the call that runs, as it is parked when the other one is resumed
Parked ==
    [pc |-> pc, err |-> err, root_id |-> root_id, options |-> options, call_options |-> call_options,
     patch |-> patch, i |-> i, handler |-> handler, next |-> next, heap |-> heap, pending |-> pending,
     log |-> log, save_queue |-> save_queue, path_info |-> path_info,
     sq_of |-> calls.sq_of, pi_of |-> calls.pi_of]

\* the other of the two calls
Other(c) == 3 - c

\* two documents are loaded and jsonPatch is called on each; the first call starts to run
InitTwoCalls ==
    \E a \in CallInputs, b \in CallInputs :
        /\ root_id = a.root_id
        /\ options = a.options
        /\ call_options = NoCallOptions
        /\ patch = a.patch
        /\ heap = <<LoadDoc(Store0, a.root_id)>>
        /\ store = Store0
        /\ save_queue = <<>>
        /\ path_info = <<>>
        /\ pending = {}
        /\ log = <<>>
        /\ i = 1
        /\ handler = 0
        /\ next = [op |-> "", path |-> <<>>]
        /\ pc = "start"
        /\ err = ""
        /\ calls = [cur |-> 1, sq_of |-> 0, pi_of |-> 0, parked |-> <<Fresh(b)>>]

\* the running call is at an await (of populatePath, of the verb's method or the handler, of the
\* saves) or has returned or thrown
Suspended == pc \in {"exec", "saving", "done", "failed"} \/ (pc = "dispatch" /\ i > 1)

\* a call has nothing left to do
Finished(c) == c.pc = "done" \/ (c.pc = "failed" /\ c.pending = {})

\* the event loop resumes the other call: its locals and its documents take the place of those
\* of the call that ran; this.save_queue and this.path_info change with the patcher
Resume ==
    /\ Len(calls.parked) = 1
    /\ Suspended
    /\ ~Finished(calls.parked[1])
    /\ pc' = calls.parked[1].pc
    /\ err' = calls.parked[1].err
    /\ root_id' = calls.parked[1].root_id
    /\ options' = calls.parked[1].options
    /\ call_options' = calls.parked[1].call_options
    /\ patch' = calls.parked[1].patch
    /\ i' = calls.parked[1].i
    /\ handler' = calls.parked[1].handler
    /\ next' = calls.parked[1].next
    /\ heap' = calls.parked[1].heap
    /\ pending' = calls.parked[1].pending
    /\ log' = calls.parked[1].log
    /\ IF PatcherOf(Other(calls.cur)) = PatcherOf(calls.cur)
       THEN /\ save_queue' = save_queue
            /\ path_info' = path_info
            /\ calls' = [calls EXCEPT !.cur = Other(calls.cur), !.parked = <<Parked>>]
       ELSE /\ save_queue' = calls.parked[1].save_queue
            /\ path_info' = calls.parked[1].path_info
            /\ calls' = [cur |-> Other(calls.cur), sq_of |-> calls.parked[1].sq_of,
                         pi_of |-> calls.parked[1].pi_of, parked |-> <<Parked>>]
    /\ UNCHANGED store

NextTwoCalls ==
    \/ Next
    \/ Resume

SpecTwoCalls == InitTwoCalls /\ [][NextTwoCalls]_vars

----------------------------------------------------------------------------
(* Properties *)

\* the document as jsonPatch() received it
Heap0 == <<LoadDoc(Store0, root_id)>>

\* nothing has been read from or written to the graph or the store
Untouched == heap = Heap0 /\ store = Store0 /\ log = <<>> /\ pending = {}

\* some item of the patch matches a rule of a blacklist
BlacklistHit ==
    /\ options.has_rules
    /\ options.rules_mode = "blacklist"
    /\ \E n \in 1..Len(patch) : \E r \in 1..Len(options.rules) : RuleMatches(options.rules[r], patch[n])

C2_InvalidPatchTouchesNothing ==
    ~SchemaValid(patch) =>
        /\ pc \in {"start", "failed"}
        /\ pc = "failed" => err = "validation"
        /\ Untouched
        /\ save_queue = <<>>
        /\ handler = 0

\* an invalid patch that also holds a blacklisted item was rejected by the validator
C2_Witness ==
    /\ pc = "failed"
    /\ err = "validation"
    /\ BlacklistHit
    /\ Len(patch) = 2

----------------------------------------------------------------------------
(* The item being applied, as the handlers see it *)

\* the converted path of patch[i], its last part, and what walkPath(path, -1) reaches
CurPath == jsonPointerToMongoosePath(patch[i].path)
CurPart == split(CurPath, ".")[Len(split(CurPath, "."))]
CurParent == walkPath(heap, CurPath, -1)

\* the step is this[op](item) returning normally / the item's parent is an array (or is not)
ExecOk == pc = "exec" /\ pc' = "dispatch"
ArrayParent == CurParent.err = "" /\ CurParent.parent.k = "arr"
PlainParent == CurParent.err = "" /\ CurParent.parent.k # "arr"

\* a pointer that starts with the separator / a pointer without a dot in its segments
WellFormed(p) == p # <<>> /\ Head(p) = "/"
Dotless(p) == \A n \in 1..Len(p) : p[n] # "."

\* patch[i] is addressed segment by segment by a well-formed pointer, and it has the op and the
\* path it had when the loop body took them from it
Canonical ==
    /\ WellFormed(patch[i].path) /\ Dotless(patch[i].path)
    /\ next.path = patch[i].path /\ next.op = patch[i].op

\* the array patch[i] addresses, before and after the step
ItemsBefore == CurParent.parent.items
ItemsAfter == walkPath(heap', CurPath, -1).parent.items

\* the fields of a document as a save would store them
StoredFields(hp, h) == [q \in DOMAIN hp[h].f |-> Depopulate(hp, hp[h].f[q])]

\* history
HasEvent(e, j) == \E a \in 1..Len(log) : log[a].e = e /\ log[a].i = j
Skipped(j) ==
    \E a \in 1..Len(log) :
        log[a].e = "handler" /\ log[a].i = j /\ options.middleware[log[a].h].handler = "no_next"
Applied(j) == HasEvent("exec", j) \/ Skipped(j)
Queued(h) == \E n \in 1..Len(save_queue) : save_queue[n] = h

----------------------------------------------------------------------------

\* the history is in list order: every item is resolved once, executed after its own resolution,
\* and resolved only when every item before it has been executed (or given up by its handler)
C3_History ==
    /\ \A a, b \in 1..Len(log) : a < b => log[a].i <= log[b].i
    /\ \A a, b \in 1..Len(log) : a < b /\ log[a].e = log[b].e /\ log[a].e \in {"resolve", "exec"}
                                   => log[a].i < log[b].i
    /\ \A b \in 1..Len(log) : log[b].e = "exec" =>
           \E a \in 1..(b - 1) : log[a].e = "resolve" /\ log[a].i = log[b].i
    /\ \A b \in 1..Len(log) : log[b].e = "resolve" =>
           \A j \in 1..(log[b].i - 1) :
               Skipped(j) \/ \E a \in 1..(b - 1) : log[a].e = "exec" /\ log[a].i = j
    /\ pc \in {"saving", "done"} => \A j \in 1..Len(patch) : Applied(j)

\* between the execution of one item and the resolution of the next nothing touches the graph
C3_Between == pc \in {"dispatch", "handler"} => heap' = heap /\ store' = store /\ path_info' = path_info

\* C3: items are resolved and executed one at a time in list order: the resolution of item i+1
\* starts only after the mutation of item i is complete, and it starts from the graph exactly as
\* items 1..i left it
C3_ListOrder == []C3_History /\ [][C3_Between]_vars

\* the second item addressed by index the book the first item created and appended
C3_Witness ==
    /\ pc = "done"
    /\ Len(patch) = 2
    /\ patch[1] = Item("add", P2("books", "-"), NoFrom, Obj([name |-> Str("Fellowship")]))
    /\ patch[2] = Item("replace", P3("books", "1", "name"), NoFrom, Str("Silmarillion"))
    /\ "n1" \in DOMAIN store
    /\ store["n1"].f.name = Str("Silmarillion")

----------------------------------------------------------------------------

\* the document and top-level field item i writes to, <<0, "">> when its path has no record
Target ==
    IF CurPath \in DOMAIN path_info
    THEN <<path_info[CurPath].root, TopField(path_info[CurPath].relative_path)>>
    ELSE <<0, "">>

\* every document of hp is in hp2 with the same fields, but for the one field `except`
Kept(hp, hp2, except) ==
    \A h \in 1..Len(hp) :
        /\ h <= Len(hp2)
        /\ \A q \in DOMAIN hp[h].f :
               <<h, q>> # except => Depopulate(hp2, hp2[h].f[q]) = Depopulate(hp, hp[h].f[q])

\* a call that failed at item i: nothing of a later item has happened, every earlier item was
\* applied, nothing was saved by save(), and no step follows
C4_Stopped ==
    pc = "failed" /\ err \notin {"validation", "Patch failed rule check", SaveError} =>
        /\ i <= Len(patch)
        /\ \A a \in 1..Len(log) : log[a].i <= i /\ log[a].e # "persist"
        /\ \A j \in 1..(i - 1) : Applied(j)
        /\ pending = {}
        /\ ~ENABLED Next

\* a resolution or execution that throws ends the call with that error at that item, and the
\* failing step leaves every field as the earlier items left it (an execution that throws
\* half-way may have written the field it addresses)
C4_Throws ==
    /\ pc = "resolve" /\ populatePath(heap, save_queue, store, options, next.path, i).err # ""
           => /\ pc' = "failed"
              /\ err' = populatePath(heap, save_queue, store, options, next.path, i).err
              /\ i' = i
              /\ store' = store
              /\ Kept(heap, heap', <<0, "">>)
    /\ pc = "exec" /\ Handler(next.op, heap, store, path_info, options, patch[i], i).err # ""
           => /\ pc' = "failed"
              /\ err' = Handler(next.op, heap, store, path_info, options, patch[i], i).err
              /\ i' = i
              /\ store' = store
              /\ Kept(heap, heap', Target)

\* C4: when item k fails in its resolution or its execution the call fails with that error,
\* items k+1.. are never resolved or executed, and what items 1..k-1 wrote in memory stays
C4_NoRollback == []C4_Stopped /\ [][C4_Throws]_vars

\* the second item failed and the first name the first item wrote is still there
C4_Witness ==
    /\ pc = "failed"
    /\ i = 2
    /\ root_id = "a1"
    /\ patch[1] = Item("replace", P1("first_name"), NoFrom, Str("Jimmy"))
    /\ DocGet(heap, 1, <<"first_name">>) = Str("Jimmy")
    /\ store = Store0

----------------------------------------------------------------------------

\* the step is a successful replace or add of a field (a path of the schema) of a document the
\* root refers to
CrossRefWrite ==
    /\ ExecOk
    /\ patch[i].op \in {"replace", "add"}
    /\ PlainParent
    /\ CurPath \in DOMAIN path_info
    /\ path_info[CurPath].root # 1
    /\ Positional(path_info[CurPath].relative_path) \in SchemaPaths(heap[path_info[CurPath].root].type)

\* the write lands in the document that owns the field (loaded earlier in the call and queued),
\* and the root keeps its fields and is no more modified than before
C5_Write ==
    CrossRefWrite =>
        /\ DocGet(heap', path_info[CurPath].root, path_info[CurPath].relative_path) = Member(patch[i].value)
        /\ DocGet(heap', 1, CurPath) = Member(patch[i].value)
        /\ heap[path_info[CurPath].root].id # heap[1].id
        /\ StoredFields(heap', 1) = StoredFields(heap, 1)
        /\ heap'[1].dirty = heap[1].dirty
        /\ Queued(path_info[CurPath].root)
        /\ \E a \in 1..Len(log) : log[a].e \in {"load", "create"} /\ log[a].h = path_info[CurPath].root

\* a modified document is in the queue; once the call is done with autosave, the store holds
\* the fields of every queued document (of which the queue holds a single copy)
C5_Queue ==
    /\ pc \in {"dispatch", "handler", "resolve", "exec", "saving"} =>
           \A h \in 1..Len(heap) : heap[h].dirty # {} => Queued(h)
    /\ pc = "done" /\ options.autosave =>
           \A h \in 1..Len(heap) :
               Queued(h) /\ (\A g \in 1..Len(heap) : Queued(g) /\ heap[g].id = heap[h].id => g = h)
                   => store[heap[h].id].f = StoredFields(heap, h)

----------------------------------------------------------------------------

\* the saves of a document: by save() at the end / by any save, the one at creation included
PersistEvents(h) == {a \in 1..Len(log) : log[a].e = "persist" /\ log[a].h = h}
SaveCalls(h) == {a \in 1..Len(log) : log[a].e \in {"persist", "create"} /\ log[a].h = h}

\* C6 as stated: with autosave and every item succeeding each queued document is saved exactly
\* once and none of them before the last item has finished; without autosave nothing is saved
C6_Original ==
    /\ pc = "done" /\ options.autosave =>
           \A h \in 1..Len(heap) : Queued(h) => Cardinality(SaveCalls(h)) = 1
    /\ \A a \in 1..Len(log) :
           log[a].e \in {"persist", "create"} /\ Queued(log[a].h) => log[a].i > Len(patch)
    /\ ~options.autosave => \A a \in 1..Len(log) : log[a].e \notin {"persist", "create"}

\* C6: with autosave and every item succeeding, save() saves each queued document exactly once,
\* after the last item has finished; before that the only write to the store is the save of a
\* document that an add of an object to an array of references has just constructed (stored
\* documents stay as they were); without autosave nothing is ever saved
C6_SavedOnceAtEnd ==
    /\ pc = "done" /\ options.autosave =>
           \A h \in 1..Len(heap) : Queued(h) => Cardinality(PersistEvents(h)) = 1
    /\ \A n, m \in 1..Len(save_queue) : save_queue[n] = save_queue[m] => n = m
    /\ \A a \in 1..Len(log) :
           log[a].e = "persist" =>
               /\ log[a].i > Len(patch)
               /\ Queued(log[a].h)
               /\ \A j \in 1..Len(patch) : Applied(j)
    /\ \A a \in 1..Len(log) :
           log[a].e = "create" =>
               /\ options.autosave
               /\ patch[log[a].i].op = "add"
               /\ log[a].id \notin DOMAIN Store0
    /\ pc \notin {"saving", "done"} /\ err # SaveError => \A id \in DOMAIN Store0 : store[id] = Store0[id]
    /\ ~options.autosave => store = Store0 /\ \A a \in 1..Len(log) : log[a].e \notin {"persist", "create"}

\* a book constructed and saved by an add, queued by a later item, was saved again at the end
C6_Witness ==
    /\ pc = "done"
    /\ \E a \in 1..Len(log) :
           /\ log[a].e = "create"
           /\ Queued(log[a].h)
           /\ PersistEvents(log[a].h) # {}
           /\ log[a].i < Len(patch)

----------------------------------------------------------------------------

\* the step is a successful replace or add of a string at a field of the schema (not an array
\* element) that the root document owns
LeafWrite ==
    /\ ExecOk
    /\ patch[i].op \in {"replace", "add"}
    /\ patch[i].value.k = "str"
    /\ PlainParent
    /\ CurPath \in DOMAIN path_info
    /\ path_info[CurPath].root = 1
    /\ Positional(path_info[CurPath].relative_path) \in SchemaPaths(heap[1].type)

C7_Write ==
    LeafWrite =>
        /\ DocGet(heap', 1, CurPath) = patch[i].value
        /\ patch[i].op = "add" =>
               /\ heap' = replace(heap, store, path_info, options, patch[i], i).hp
               /\ store' = replace(heap, store, path_info, options, patch[i], i).st

\* C7: after a successful replace, or add on a target that is not an array, of a value at a leaf
\* of the root or of an embedded object, the path reads that value; such an add does exactly what
\* replace does
C7_LeafReadsValue == [][C7_Write]_vars

\* an add at a root leaf and a replace inside the embedded address were both stored
C7_Witness ==
    /\ pc = "done"
    /\ root_id = "a1"
    /\ Len(patch) = 2
    /\ patch[1] = Item("add", P1("first_name"), NoFrom, Str("Jimmy"))
    /\ patch[2].path = P2("address", "city")
    /\ store["a1"].f.first_name = Str("Jimmy")
    /\ store["a1"].f.address.f.city = Str("New York")

----------------------------------------------------------------------------

\* the step is a successful remove of an existing element of an array
ArrayRemove ==
    /\ ExecOk
    /\ patch[i].op = "remove"
    /\ ArrayParent
    /\ IsInt(CurPart)
    /\ parseInt(CurPart) < Len(ItemsBefore)

\* C8: remove on a path whose parent is an array removes exactly the element at the index: the
\* array is one shorter, the elements after the index move down one place and every other
\* element stays, in order
C8_RemovesOneElement ==
    [][ArrayRemove =>
         ItemsAfter = SubSeq(ItemsBefore, 1, parseInt(CurPart))
                      \o SubSeq(ItemsBefore, parseInt(CurPart) + 2, Len(ItemsBefore))]_vars

----------------------------------------------------------------------------

\* the step is a successful remove of a field of the schema that is not an array element
LeafRemove ==
    /\ ExecOk
    /\ patch[i].op = "remove"
    /\ PlainParent
    /\ CurPath \in DOMAIN path_info
    /\ Positional(path_info[CurPath].relative_path) \in SchemaPaths(heap[path_info[CurPath].root].type)

C9_Remove ==
    LeafRemove =>
        /\ DocGet(heap', 1, CurPath) = Undef
        /\ DocGet(heap', 1, CurPath) # Null
        /\ DocGet(heap, 1, CurPath) # Undef => DocGet(heap', 1, CurPath) # DocGet(heap, 1, CurPath)
        /\ TopField(path_info[CurPath].relative_path) \in heap'[path_info[CurPath].root].dirty

\* C9: after remove on a leaf whose parent is not an array the field is unset: it reads
\* undefined, never the value it had and never null, and the owner is marked modified so that a
\* save stores the unset
C9_LeafUnset == [][C9_Remove]_vars

\* the first name was removed last and the stored author has none
C9_Witness ==
    /\ pc = "done"
    /\ root_id = "a1"
    /\ Len(patch) > 0
    /\ patch[Len(patch)] = Item("remove", P1("first_name"), NoFrom, Absent)
    /\ Store0["a1"].f.first_name = Str("JRR")
    /\ store["a1"].f.first_name = Undef

----------------------------------------------------------------------------

\* the step is a successful add at an integer index of an array / replace of an existing element
IndexAdd == ExecOk /\ patch[i].op = "add" /\ ArrayParent /\ IsInt(CurPart)
IndexReplace ==
    /\ ExecOk
    /\ patch[i].op = "replace"
    /\ ArrayParent
    /\ IsInt(CurPart)
    /\ parseInt(CurPart) < Len(ItemsBefore)

\* what the add inserts: the value, or the document constructed from it
Inserted ==
    IF MustConstruct(CurParent.parent, Member(patch[i].value)) THEN DocRef(Len(heap) + 1)
    ELSE Member(patch[i].value)

C10_Step ==
    /\ IndexAdd =>
           /\ Len(ItemsAfter) = Len(ItemsBefore) + 1
           /\ parseInt(CurPart) + 1 \in DOMAIN ItemsAfter
           /\ ItemsAfter[parseInt(CurPart) + 1] = Inserted
           /\ \A m \in 1..Len(ItemsBefore) :
                  ItemsAfter[IF m <= parseInt(CurPart) THEN m ELSE m + 1] = ItemsBefore[m]
    /\ IndexReplace =>
           ItemsAfter = [ItemsBefore EXCEPT ![parseInt(CurPart) + 1] = Member(patch[i].value)]

\* C10: add at an integer index i of an array puts the value at position i and moves the elements
\* that were at positions >= i one place to the right (one longer, nothing lost); replace at
\* the same index overwrites the element in place (same length)
C10_InsertAtIndex == [][C10_Step]_vars

----------------------------------------------------------------------------

\* the step is a successful add with the append marker
AppendAdd == ExecOk /\ patch[i].op = "add" /\ ArrayParent /\ CurPart = <<"-">>

\* the step appends the value (or the document constructed from it) and keeps what was there
C11_Step == AppendAdd => ItemsAfter = Append(ItemsBefore, Inserted)

\* the element item j of the patch put in an array, as a save stores it
StoredElement(j) ==
    IF \E a \in 1..Len(log) : log[a].e = "create" /\ log[a].i = j
    THEN Oid(log[CHOOSE a \in 1..Len(log) : log[a].e = "create" /\ log[a].i = j].id)
    ELSE Member(patch[j].value)

\* the array that items with the path of patch[1] append to
AppendedArray == Depopulate(heap, DocGet(heap, 1, <<patch[1].path[2]>>))

\* the first two items were appends to one array and both were executed
TwoAppends ==
    /\ Len(patch) >= 2
    /\ pc = "dispatch"
    /\ patch[1].op = "add" /\ patch[2].op = "add"
    /\ patch[1].path = patch[2].path
    /\ Len(patch[1].path) = 4 /\ patch[1].path[4] = "-"
    /\ HasEvent("exec", 1) /\ HasEvent("exec", 2)
    /\ i = 3

C11_Twice ==
    TwoAppends =>
        /\ Len(AppendedArray.items) = Len(Store0[root_id].f[patch[1].path[2]].items) + 2
        /\ SubSeq(AppendedArray.items, 1, Len(AppendedArray.items) - 2) = Store0[root_id].f[patch[1].path[2]].items
        /\ AppendedArray.items[Len(AppendedArray.items) - 1] = StoredElement(1)
        /\ AppendedArray.items[Len(AppendedArray.items)] = StoredElement(2)

\* C11: add with the marker "-" appends the value as the new last element: two such adds with V1
\* then V2 on an array of length N leave an array of length N+2 whose first N elements are the
\* old ones, with V1 at index N and V2 at index N+1
C11_AppendMarker == []C11_Twice /\ [][C11_Step]_vars

\* a new book and then the id of a book were appended to the series and stored in that order
C11_Witness ==
    /\ pc = "done"
    /\ root_id = "s1"
    /\ Len(patch) = 2
    /\ patch[1] = Item("add", P2("books", "-"), NoFrom, Obj([name |-> Str("Fellowship")]))
    /\ patch[2] = Item("add", P2("books", "-"), NoFrom, Oid("b1"))
    /\ store["s1"].f.books.items = <<Oid("b1"), Oid("n1"), Oid("b1")>>

----------------------------------------------------------------------------

\* the step is a successful add of an object that is not an id to an array of references, at
\* the marker or at an index within the array
ConstructingAdd ==
    /\ ExecOk
    /\ patch[i].op = "add"
    /\ ArrayParent
    /\ MustConstruct(CurParent.parent, Member(patch[i].value))
    /\ CurPart = <<"-">> \/ (IsInt(CurPart) /\ parseInt(CurPart) <= Len(ItemsBefore))

\* the position (0-based) the item addresses
AddressedPosition == IF CurPart = <<"-">> THEN Len(ItemsBefore) ELSE parseInt(CurPart)

\* the step makes one document of the referenced type from the value, stores it under a new id
\* (saved before the handler returns, stored documents untouched) and puts it at the position
C12_Step ==
    ConstructingAdd =>
        /\ options.autosave
        /\ Len(heap') = Len(heap) + 1
        /\ heap'[Len(heap')].type = CurParent.parent.ref
        /\ heap'[Len(heap')].id \notin DOMAIN store
        /\ DOMAIN store' = DOMAIN store \cup {heap'[Len(heap')].id}
        /\ \A id \in DOMAIN store : store'[id] = store[id]
        /\ store'[heap'[Len(heap')].id].type = CurParent.parent.ref
        /\ store'[heap'[Len(heap')].id].f = StoredFields(heap', Len(heap'))
        /\ \A q \in DOMAIN patch[i].value.f : store'[heap'[Len(heap')].id].f[q] = patch[i].value.f[q]
        /\ ItemsAfter = SubSeq(ItemsBefore, 1, AddressedPosition) \o <<DocRef(Len(heap'))>>
                        \o SubSeq(ItemsBefore, AddressedPosition + 1, Len(ItemsBefore))
        /\ Depopulate(heap', ItemsAfter[AddressedPosition + 1]) = Oid(heap'[Len(heap')].id)
        /\ log'[Len(log') - 1] = Event("create", i, heap'[Len(heap')].id, Len(heap'))
        /\ log'[Len(log')].e = "exec"

\* C12: with autosave, add of an object that is not an id to an array of references makes a new
\* document of the referenced type from the value, saves it before it is inserted and inserts a
\* reference to it at the addressed position; the array grows by one and keeps its elements
C12_ConstructsAndInserts == [][C12_Step]_vars

\* the series holds the old book and a reference to the new one, which is in the store
C12_Witness ==
    /\ pc = "done"
    /\ root_id = "s1"
    /\ patch = <<Item("add", P2("books", "-"), NoFrom, Obj([name |-> Str("Fellowship")]))>>
    /\ store["s1"].f.books.items = <<Oid("b1"), Oid("n1")>>
    /\ store["n1"].type = "Book"
    /\ store["n1"].f.name = Str("Fellowship")

----------------------------------------------------------------------------

\* add is about to execute on an array of references with an object that is not an id, and
\* autosave is off
ConstructWithoutAutosave ==
    /\ pc = "exec"
    /\ patch[i].op = "add"
    /\ ArrayParent
    /\ MustConstruct(CurParent.parent, Member(patch[i].value))
    /\ ~options.autosave

\* the step is a successful add of an ObjectId to an array of references, at the marker or at
\* an index within the array
IdAdd ==
    /\ ExecOk
    /\ patch[i].op = "add"
    /\ ArrayParent
    /\ CurParent.parent.ref # "none"
    /\ patch[i].value.k = "oid"
    /\ CurPart = <<"-">> \/ (IsInt(CurPart) /\ parseInt(CurPart) <= Len(ItemsBefore))

C13_Step ==
    /\ ConstructWithoutAutosave =>
           /\ pc' = "failed"
           /\ err' = "Autosave must be turned on to add array elements to populated path"
           /\ heap' = heap
           /\ store' = store
           /\ log' = Append(log, Event("exec", i, "", 0))
    /\ IdAdd =>
           /\ Len(heap') = Len(heap)
           /\ store' = store
           /\ log' = Append(log, Event("exec", i, "", 0))
           /\ ItemsAfter = SubSeq(ItemsBefore, 1, AddressedPosition) \o <<patch[i].value>>
                           \o SubSeq(ItemsBefore, AddressedPosition + 1, Len(ItemsBefore))

\* a document is constructed only by a call with autosave
C13_NoCreation ==
    ~options.autosave =>
        /\ \A h \in 1..Len(heap) : heap[h].id \in DOMAIN Store0
        /\ store = Store0
        /\ \A a \in 1..Len(log) : log[a].e # "create"

\* C13: without autosave, add of an object that is not an id to an array of references fails
\* with the configuration error, constructs no document and leaves the array as it was; a value
\* that is an id is inserted as it is and no document is constructed, with or without autosave
C13_ConfigurationError == []C13_NoCreation /\ [][C13_Step]_vars

\* without autosave the id was appended by the first item and the object of the second was refused
C13_Witness ==
    /\ pc = "failed"
    /\ err = "Autosave must be turned on to add array elements to populated path"
    /\ ~options.autosave
    /\ i = 2
    /\ patch[1] = Item("add", P2("books", "-"), NoFrom, Oid("b1"))
    /\ DocGet(heap, 1, <<"books">>).items = <<DocRef(2), Oid("b1")>>
    /\ store = Store0

----------------------------------------------------------------------------

\* the converted from of patch[i]
CurFrom == jsonPointerToMongoosePath(patch[i].from)

\* move is about to execute with a from and a path that are fields of the schema of the root
MoveOfFields ==
    /\ pc = "exec"
    /\ patch[i].op = "move"
    /\ Positional(CurFrom) \in SchemaPaths(heap[1].type)
    /\ Positional(CurPath) \in SchemaPaths(heap[1].type)

\* C14: for a from and a path that address locations of the graph, move completes, path then
\* holds the value from held before and from reads undefined (an array element is cleared in
\* place, the array keeps its length)
C14_MoveCompletes ==
    [][MoveOfFields =>
         /\ pc' = "dispatch"
         /\ DocGet(heap', 1, CurPath) = DocGet(heap, 1, CurFrom)
         /\ DocGet(heap', 1, CurFrom) = Undef]_vars

----------------------------------------------------------------------------

RECURSIVE GraphPieces(_, _, _, _)
\* the value the pieces of a path lead to in the graph: a reference stands for the document
\* it refers to, loaded or not
GraphPieces(hp, st, obj, pieces) ==
    IF obj.k = "oid" /\ obj.id \in DOMAIN st /\ pieces # <<>>
    THEN GraphPieces(hp, st, Obj(st[obj.id].f), pieces)
    ELSE IF pieces = <<>> THEN obj
    ELSE IF obj.k \in {"undef", "null"} THEN Undef
    ELSE GraphPieces(hp, st, Prop(hp, obj, Head(pieces)), Tail(pieces))

\* the value at a path of the graph under the root document
GraphGet(hp, st, path) == GraphPieces(hp, st, DocRef(1), split(path, "."))

\* the step is a successful copy
CopyStep == ExecOk /\ patch[i].op = "copy"

\* C15: after copy(from, path), path holds the value that from holds, from holds what it held
\* before, and no location other than path has changed
C15_CopyKeepsFrom ==
    [][CopyStep =>
         /\ GraphGet(heap', store', CurPath) = GraphGet(heap, store, CurFrom)
         /\ GraphGet(heap', store', CurFrom) = GraphGet(heap, store, CurFrom)
         /\ store' = store
         /\ Kept(heap, heap', Target)]_vars

----------------------------------------------------------------------------

\* test is about to execute on a value that does not equal the one at its path
TestMismatch ==
    /\ pc = "exec"
    /\ patch[i].op = "test"
    /\ ~deepStrictEqual(DocGet(heap, 1, CurPath), Member(patch[i].value))

\* the mismatch does not throw: the loop goes on with the next item; no test, matching or not,
\* writes anything, and resolving the path of a test changes no field either
C16_Step ==
    /\ TestMismatch => pc' = "dispatch" /\ err' = err /\ i' = NextItem(i)
    /\ pc = "exec" /\ patch[i].op = "test" => heap' = heap /\ store' = store
    /\ pc = "resolve" /\ patch[i].op = "test" => Kept(heap, heap', <<0, "">>) /\ store' = store

\* a call never fails in the execution of a test
C16_Completes ==
    pc = "failed" /\ err \notin {"validation", "Patch failed rule check", SaveError} =>
        patch[i].op # "test" \/ ~HasEvent("exec", i)

\* C16: a test whose value does not equal the value at its path does not fail the call: the
\* items after it are applied and the call completes; a test never changes a field
C16_TestDoesNotAbort == []C16_Completes /\ [][C16_Step]_vars

\* the first item was a test that did not match, the second was applied and stored
C16_Witness ==
    /\ pc = "done"
    /\ root_id = "a1"
    /\ Len(patch) = 2
    /\ patch[1] = Item("test", P1("first_name"), NoFrom, Str("Jimmy"))
    /\ patch[2] = Item("replace", P2("address", "city"), NoFrom, Str("New York"))
    /\ store["a1"].f.first_name = Str("JRR")
    /\ store["a1"].f.address.f.city = Str("New York")

----------------------------------------------------------------------------

\* C17: test(path, value) returns the failure result exactly when the value stored at the
\* location the JSON Pointer addresses does not deep-equal value
C17_TestComparesLocation ==
    pc = "exec" /\ patch[i].op = "test" =>
        (testReturns(heap, patch[i]) = "false"
            <=> ~deepStrictEqual(DocGet(heap, 1, CurPath), Member(patch[i].value)))

----------------------------------------------------------------------------

\* what the handler selected for patch[i] does
HandlerKind == options.middleware[handler].handler

\* the step is a successful write, through next(), of an item a handler was invoked for
HandledWrite ==
    /\ LeafWrite
    /\ HasEvent("handler", i)

C18_Step ==
    /\ pc = "dispatch" /\ i <= Len(patch) /\ middlewareFor(options, patch[i]) # 0 =>
           /\ pc' = "handler"
           /\ handler' = middlewareFor(options, patch[i])
           /\ heap' = heap /\ store' = store /\ path_info' = path_info /\ log' = log
    /\ pc = "handler" /\ HandlerKind = "no_next" =>
           /\ pc' = "dispatch"
           /\ i' = NextItem(i)
           /\ err' = err
           /\ heap' = heap /\ store' = store /\ save_queue' = save_queue /\ path_info' = path_info
    /\ pc = "handler" /\ HandlerKind = "set_value_next" =>
           /\ pc' = "resolve"
           /\ i' = i
           /\ patch'[i] = [patch[i] EXCEPT !.value = Str("Jimmie")]
           /\ heap' = heap /\ store' = store /\ save_queue' = save_queue /\ path_info' = path_info
    /\ HandledWrite => DocGet(heap', 1, CurPath) = Str("Jimmie")

\* an item a rule matches is resolved only after its handler was invoked, and for an item whose
\* handler did not call next nothing but the invocation has happened
C18_History ==
    /\ \A a \in 1..Len(log) :
           log[a].e = "resolve" /\ middlewareFor(options, patch[log[a].i]) # 0 =>
               \E b \in 1..(a - 1) : log[b].e = "handler" /\ log[b].i = log[a].i
    /\ \A a \in 1..Len(log) : Skipped(log[a].i) => log[a].e = "handler"

\* C18: when a middleware rule matches an item its handler is invoked in place of the default
\* executor: the path is resolved and the default mutation made only when the handler calls
\* next, with the value as the handler left it; when the handler returns without calling next,
\* nothing is resolved, loaded or mutated for the item (a path the schema lacks is no error) and
\* the call goes on with the next item
C18_HandlerInPlace == []C18_History /\ [][C18_Step]_vars

\* the add to a path the schema lacks was left to its handler, the add of the first name was
\* done with the value its handler set
C18_Witness ==
    /\ pc = "done"
    /\ root_id = "a1"
    /\ Len(patch) = 2
    /\ patch[1] = Item("add", P2("payment_methods", "-"), NoFrom, Str("4242"))
    /\ patch[2].path = P1("first_name")
    /\ Skipped(1)
    /\ HasEvent("handler", 2)
    /\ store["a1"].f.first_name = Str("Jimmie")

----------------------------------------------------------------------------

\* rule m of the configured middleware matches item j: verb and path pattern
RuleFits(m, j) ==
    /\ OpMatches(options.middleware[m], patch[j].op)
    /\ RegexMatches(options.middleware[m].path, patch[j].path)

\* rule m is the first of the configured rules that matches item j
FirstFit(m, j) ==
    /\ m \in 1..Len(options.middleware)
    /\ RuleFits(m, j)
    /\ \A q \in 1..(m - 1) : ~RuleFits(q, j)

\* the handler selected, and every handler ever invoked, is that of the first matching rule;
\* no item has two invocations
C19_Selected ==
    /\ pc = "handler" => FirstFit(handler, i)
    /\ \A a \in 1..Len(log) :
           log[a].e = "handler" /\ options.middleware[log[a].h].handler # "set_path_next"
               => FirstFit(log[a].h, log[a].i)
    /\ \A a, b \in 1..Len(log) : a < b /\ log[a].e = "handler" /\ log[b].e = "handler" => log[a].i < log[b].i

\* an item no rule matches goes to the default executor
C19_Default ==
    pc = "dispatch" /\ i <= Len(patch) /\ (\A m \in 1..Len(options.middleware) : ~RuleFits(m, i))
        => pc' = "resolve" /\ handler' = 0 /\ log' = log

\* C19: for each item at most one handler is invoked, that of the first rule in configured order
\* whose verbs and path pattern both match; later matching rules are not consulted, and an item
\* no rule matches is run by the default executor
C19_FirstRuleOnly == []C19_Selected /\ [][C19_Default]_vars

\* rules 1 and 3 both match the add of the first name: only the handler of rule 1 ran (the value
\* it set was stored), while the remove, which rule 3 alone matches, was left to rule 3
C19_Witness ==
    /\ pc = "done"
    /\ root_id = "a1"
    /\ Len(patch) = 2
    /\ patch[1].op = "add" /\ patch[1].path = P1("first_name")
    /\ patch[2].op = "remove" /\ patch[2].path = P1("first_name")
    /\ Len(options.middleware) = 3
    /\ RuleFits(1, 1) /\ RuleFits(3, 1)
    /\ \E a \in 1..Len(log) : log[a] = Event("handler", 1, "", 1)
    /\ \E a \in 1..Len(log) : log[a] = Event("handler", 2, "", 3)
    /\ store["a1"].f.first_name = Str("Jimmie")

----------------------------------------------------------------------------

\* the caller passed options with this member
CallGives(k) == call_options.given /\ k \in DOMAIN call_options

\* C20: the options passed as second argument of jsonPatch govern the call: a middleware rule
\* given at call time is applied to the items it matches, autopopulate: false given at call time
\* keeps references from being loaded, autosave: true given at call time saves the document
C20_CallOptionsGovern ==
    /\ CallGives("middleware") /\ pc \in {"resolve", "exec"} /\ middlewareFor(call_options, patch[i]) # 0
           => HasEvent("handler", i)
    /\ CallGives("autopopulate") /\ ~call_options.autopopulate
           => \A a \in 1..Len(log) : log[a].e # "load"
    /\ CallGives("autosave") /\ call_options.autosave /\ pc = "done" /\ Len(patch) > 0
           => PersistEvents(1) # {}

----------------------------------------------------------------------------

\* some item of the patch matches no rule of a whitelist
WhitelistMiss ==
    /\ options.has_rules
    /\ options.rules_mode = "whitelist"
    /\ \E n \in 1..Len(patch) : \A r \in 1..Len(options.rules) : ~RuleMatches(options.rules[r], patch[n])

\* C21: in whitelist mode a patch with an item that matches no rule is rejected as a whole: the
\* call fails with the rule error and no item is applied, the items that match a rule included;
\* every document and the store stay as they were
C21_WhitelistRejectsWhole ==
    WhitelistMiss =>
        /\ pc \in {"start", "rules", "failed"}
        /\ pc = "failed" => err \in {"validation", "Patch failed rule check"}
        /\ Untouched
        /\ save_queue = <<>>

\* a two-item patch whose first item is whitelisted and whose second is not was rejected
C21_Witness ==
    /\ pc = "failed"
    /\ err = "Patch failed rule check"
    /\ options.rules_mode = "whitelist"
    /\ Len(patch) = 2
    /\ \E r \in 1..Len(options.rules) : RuleMatches(options.rules[r], patch[1])
    /\ \A r \in 1..Len(options.rules) : ~RuleMatches(options.rules[r], patch[2])

----------------------------------------------------------------------------

\* the call runs under a blacklist / item n matches one of the rules
Blacklisting == options.has_rules /\ options.rules_mode = "blacklist"
Ruled(n) == \E r \in 1..Len(options.rules) : RuleMatches(options.rules[r], patch[n])

C22_Check ==
    Blacklisting /\ pc = "rules" =>
        IF \E n \in 1..Len(patch) : Ruled(n)
        THEN pc' = "failed" /\ err' = "Patch failed rule check"
        ELSE pc' = "dispatch" /\ err' = ""

\* what has been applied when: nothing of a patch with a ruled item, every item of a patch
\* without one once the loop is through
C22_AllOrNothing ==
    Blacklisting =>
        /\ (\E n \in 1..Len(patch) : Ruled(n)) => \A n \in 1..Len(patch) : ~Applied(n) /\ ~HasEvent("resolve", n)
        /\ pc \in {"saving", "done"} => \A n \in 1..Len(patch) : Applied(n) /\ ~Ruled(n)
        /\ err = "Patch failed rule check" => \E n \in 1..Len(patch) : Ruled(n)

----------------------------------------------------------------------------

\* the parts of the converted path of patch[i], and the path made of its first k parts
CurParts == split(CurPath, ".")
Prefix(k) == join(slice(CurParts, 0, k), ".")

\* the value the first k parts of the path lead to from the root document of a heap
NodeAt(hp, k) == IF k = 0 THEN DocRef(1) ELSE DocGet(hp, 1, Prefix(k))

\* null or undefined
Empty(v) == v.k \in {"undef", "null"}

\* the first k parts are the shortest prefix that leads to null or undefined, and part k is not
\* a part that is no index of the array it is applied to
FirstEmptyAt(hp, k) ==
    /\ Empty(NodeAt(hp, k))
    /\ \A q \in 1..(k - 1) : ~Empty(NodeAt(hp, q))
    /\ NodeAt(hp, k - 1).k = "arr" => IsInt(CurParts[k])

\* the document that holds the value at the first k parts: the last document on the way there
OwnerAt(hp, k) ==
    IF \E q \in 1..(k - 1) : NodeAt(hp, q).k = "doc"
    THEN NodeAt(hp, CHOOSE q \in 1..(k - 1) : NodeAt(hp, q).k = "doc"
                                              /\ \A r \in (q + 1)..(k - 1) : NodeAt(hp, r).k # "doc").h
    ELSE 1

BrokenPathError == "Attempt to operate on empty path - do you need to create the path first?"

\* a resolution that finds null or undefined with parts of the path left fails with the
\* broken-path error: no field of any document and nothing in the store changes, no document
\* becomes modified; with no part left the empty place is recorded as a leaf of its owner
C23_Resolve ==
    pc = "resolve" /\ Canonical =>
        /\ (\E k \in 1..(Len(CurParts) - 1) : FirstEmptyAt(heap', k)) =>
               /\ pc' = "failed"
               /\ err' = BrokenPathError
               /\ store' = store
               /\ Kept(heap, heap', <<0, "">>)
               /\ \A h \in 1..Len(heap') : heap'[h].dirty = IF h <= Len(heap) THEN heap[h].dirty ELSE {}
        /\ FirstEmptyAt(heap', Len(CurParts)) =>
               /\ pc' = "exec"
               /\ CurPath \in DOMAIN path_info'
               /\ path_info'[CurPath].type = "leaf"
               /\ path_info'[CurPath].root = OwnerAt(heap', Len(CurParts))
               /\ DocGet(heap', path_info'[CurPath].root, path_info'[CurPath].relative_path)
                      = NodeAt(heap', Len(CurParts))

\* the step is a replace or add at an empty leaf that is a field of the schema of its owner and
\* no element of an array
EmptyLeafWrite ==
    /\ pc = "exec"
    /\ Canonical
    /\ patch[i].op \in {"replace", "add"}
    /\ FirstEmptyAt(heap, Len(CurParts))
    /\ PlainParent
    /\ Positional(path_info[CurPath].relative_path) \in SchemaPaths(heap[path_info[CurPath].root].type)

C23_Set ==
    EmptyLeafWrite =>
        /\ pc' = "dispatch"
        /\ NodeAt(heap', Len(CurParts)) = Member(patch[i].value)
        /\ DocGet(heap', path_info[CurPath].root, path_info[CurPath].relative_path) = Member(patch[i].value)

\* C23: when resolution reaches null or undefined before the final segment the item fails with
\* the broken-path error and nothing is mutated; null or undefined at the final segment is a leaf
\* of the current owner, which replace and add then set
C23_BrokenPath == [][C23_Resolve /\ C23_Set]_vars

\* the zip of the book's author, which was undefined, was set by the first item; the second
\* item, which goes on below a publisher that is undefined, failed after the author was loaded
C23_Witness ==
    /\ pc = "failed"
    /\ err = BrokenPathError
    /\ root_id = "b1"
    /\ i = 2
    /\ patch[1] = Item("replace", P3("author", "address", "zip"), NoFrom, Str("10001"))
    /\ patch[2].path = P3("author", "publisher", "name")
    /\ Len(heap) = 2
    /\ heap[2].f.address.f.zip = Str("10001")
    /\ store = Store0

----------------------------------------------------------------------------

\* a non-negative integer: digits and nothing else
NonNegativeInteger(part) == part # <<>> /\ \A n \in 1..Len(part) : part[n] \in DOMAIN IntOf

\* part k of the path of patch[i] is applied to an array and is neither a non-negative integer
\* nor the append marker in final position
BadSegment(hp, k) ==
    /\ NodeAt(hp, k - 1).k = "arr"
    /\ ~NonNegativeInteger(CurParts[k])
    /\ ~(CurParts[k] = <<"-">> /\ k = Len(CurParts))

\* the documents created so far
Creations(lg) == {a \in 1..Len(lg) : lg[a].e = "create"}

\* C24: on an array the next segment is accepted only if it is a non-negative integer, or the
\* append marker as the final segment; with any other segment (non-numeric, negative, or the
\* marker followed by further segments) the item fails: no array and no other field changes in
\* its resolution or its execution, the execution throws, and nothing is created
C24_InvalidSegmentFails ==
    [][/\ pc = "resolve" /\ (\E k \in 1..Len(CurParts) : BadSegment(heap', k))
              => /\ pc' \in {"failed", "exec"}
                 /\ store' = store
                 /\ Kept(heap, heap', <<0, "">>)
                 /\ Creations(log') = Creations(log)
       /\ pc = "exec" /\ (\E k \in 1..Len(CurParts) : BadSegment(heap, k))
              => /\ pc' = "failed"
                 /\ store' = store
                 /\ Kept(heap, heap', <<0, "">>)
                 /\ Creations(log') = Creations(log)]_vars

----------------------------------------------------------------------------

\* the position on the path of the last document before part k (0: the root document), and the
\* path from that document to the value the first k parts lead to
OwnerPos(hp, k) ==
    IF \E q \in 1..(k - 1) : NodeAt(hp, q).k = "doc"
    THEN CHOOSE q \in 1..(k - 1) : NodeAt(hp, q).k = "doc" /\ \A r \in (q + 1)..(k - 1) : NodeAt(hp, r).k # "doc"
    ELSE 0
RelAt(hp, k) == join(slice(CurParts, OwnerPos(hp, k), k), ".")

\* the first k parts of the path lead to the first reference on it that is not loaded
UnloadedAt(hp, k) == NodeAt(hp, k).k = "oid" /\ NodeAt(hp, k).id \in DOMAIN store

\* the schema of the owner marks that place as a reference
MarkedAt(hp, k) == SchemaRef(hp[OwnerAt(hp, k)].type, RelAt(hp, k)) # "none"

\* the loads a step added to the history
NewLoads == {a \in (Len(log) + 1)..Len(log') : log'[a].e = "load"}

\* what resolution does at the unloaded reference the first k parts lead to
C25_At(k) ==
    IF options.autopopulate /\ MarkedAt(heap, k)
    THEN /\ NodeAt(heap', k).k = "doc"
         /\ NodeAt(heap', k).h > Len(heap)
         /\ heap'[NodeAt(heap', k).h] = LoadDoc(store, NodeAt(heap, k).id)
         /\ \E a \in NewLoads : log'[a].h = NodeAt(heap', k).h /\ log'[a].id = NodeAt(heap, k).id
         /\ \E n \in 1..Len(save_queue') : save_queue'[n] = NodeAt(heap', k).h
         /\ OwnerAt(heap', k + 1) = NodeAt(heap', k).h
         /\ pc' = "exec" /\ CurPath \in DOMAIN path_info' /\ k < Len(CurParts)
                => path_info'[CurPath].root = OwnerAt(heap', Len(CurParts))
    ELSE /\ heap' = heap
         /\ save_queue' \in {save_queue, Append(save_queue, 1)}
         /\ NewLoads = {}
         /\ Prefix(k) \in DOMAIN path_info'
         /\ path_info'[Prefix(k)].type = "leaf"
         /\ path_info'[Prefix(k)].root = OwnerAt(heap, k)
         /\ path_info'[Prefix(k)].relative_path = RelAt(heap, k)

\* the first k parts lead to a member of an array of references that is not populated: the
\* array is populated as a whole before a member is read, so resolution finds no id there
InUnpopulatedArray(k) ==
    /\ k > 1
    /\ NodeAt(heap, k - 1).k = "arr" /\ NodeAt(heap, k - 1).ref # "none"
    /\ ~Populated(heap, OwnerAt(heap, k - 1), RelAt(heap, k - 1))

C25_Resolve ==
    pc = "resolve" /\ Canonical =>
        \A k \in 1..Len(CurParts) :
            UnloadedAt(heap, k) /\ (options.autopopulate \/ ~InUnpopulatedArray(k)) => C25_At(k)

\* the step is a replace by an id at a reference that resolution left as a leaf
IdLeafReplace ==
    /\ pc = "exec"
    /\ patch[i].op = "replace"
    /\ patch[i].value.k = "oid"
    /\ UnloadedAt(heap, Len(CurParts))
    /\ ~(options.autopopulate /\ MarkedAt(heap, Len(CurParts)))

C25_Set ==
    IdLeafReplace =>
        /\ pc' = "dispatch"
        /\ DocGet(heap', OwnerAt(heap, Len(CurParts)), RelAt(heap, Len(CurParts))) = patch[i].value
        /\ TopField(RelAt(heap, Len(CurParts))) \in heap'[OwnerAt(heap, Len(CurParts))].dirty
        /\ Len(heap') = Len(heap)
        /\ store' = store

\* C25: at a reference that is not loaded, resolution with autopopulate on and a field the schema
\* marks as a reference loads the target, which is queued and owns the rest of the path;
\* otherwise (autopopulate off, or an id the schema does not mark) the value is a leaf of the
\* current owner, nothing is loaded, and replace sets the id on that owner
C25_ReferenceOrLeaf == [][C25_Resolve /\ C25_Set]_vars

\* the id the schema does not mark was replaced on the book with nothing loaded, then the
\* author the book refers to was loaded and renamed
C25_Witness ==
    /\ pc = "done"
    /\ root_id = "b1"
    /\ options.autopopulate
    /\ Len(patch) = 2
    /\ patch[1] = Item("replace", P1("reference_id"), NoFrom, Oid("a2"))
    /\ patch[2] = Item("replace", P2("author", "first_name"), NoFrom, Str("James"))
    /\ store["b1"].f.reference_id = Oid("a2")
    /\ store["a1"].f.first_name = Str("James")
    /\ Len(heap) = 2

----------------------------------------------------------------------------

\* the saves of save() that have completed for a document: stored or rejected
Rejections(h) == {a \in 1..Len(log) : log[a].e = "reject" /\ log[a].h = h}
Settled(h) == PersistEvents(h) \cup Rejections(h)

\* save() has been called
SaveStarted == pc = "saving" \/ err = SaveError \/ (pc = "done" /\ options.autosave)

\* from the call of save() on, every document of the queue has a save that is in flight or one
\* that completed, never both and never two: all saves are issued before the first completes and
\* none is issued again; the call is done only when every save has stored its document, and it
\* has failed with the error of the save as soon as one was rejected; saves in flight can complete
C26_Saves ==
    /\ SaveStarted =>
           \A n \in 1..Len(save_queue) :
               IF n \in pending THEN Settled(save_queue[n]) = {}
               ELSE Cardinality(Settled(save_queue[n])) = 1
    /\ ~SaveStarted => pending = {} /\ \A h \in 1..Len(heap) : Settled(h) = {}
    /\ pc = "done" /\ options.autosave =>
           \A n \in 1..Len(save_queue) : PersistEvents(save_queue[n]) # {} /\ Rejections(save_queue[n]) = {}
    /\ (\E h \in 1..Len(heap) : Rejections(h) # {}) <=> err = SaveError
    /\ err = SaveError => pc = "failed"
    /\ pending # {} => ENABLED Persist

\* the saves that complete in a step
NewlySettled(e) == {a \in (Len(log) + 1)..Len(log') : log'[a].e = e}

\* save() issues a save for every document of the queue at once; a save that is rejected stores
\* nothing, undoes nothing and leaves the other saves in flight; a save that completes, before or
\* after a rejection, stores the modified fields of its document
C26_Step ==
    /\ pc = "dispatch" /\ pc' = "saving" =>
           pending' = 1..Len(save_queue) /\ \A h \in 1..Len(heap) : Settled(h) = {}
    /\ \A a \in NewlySettled("reject") :
           /\ store' = store /\ heap' = heap
           /\ Cardinality(pending') = Cardinality(pending) - 1 /\ pending' \subseteq pending
           /\ pc' = "failed" /\ err' = SaveError
    /\ \A a \in NewlySettled("persist") :
           /\ \A q \in heap[log'[a].h].dirty :
                  store'[log'[a].id].f[q] = Depopulate(heap, heap[log'[a].h].f[q])
           /\ \A id \in DOMAIN store : id # log'[a].id => store'[id] = store[id]
           /\ Cardinality(pending') = Cardinality(pending) - 1 /\ pending' \subseteq pending
           /\ pc' = pc /\ err' = err

\* C26: the saves of the queued documents are all issued before any of them has completed; the
\* call succeeds only if every save succeeds; when a save is rejected the call fails with that
\* error while the saves of the other documents still take effect: nothing is retried and
\* nothing is rolled back
C26_ConcurrentSaves == []C26_Saves /\ [][C26_Step]_vars

\* the save of the book was rejected and the call failed; the save of the author, in flight at
\* that time, completed afterwards and stored the new name
C26_Witness ==
    /\ pc = "failed"
    /\ err = SaveError
    /\ pending = {}
    /\ root_id = "b1"
    /\ \E a, b \in 1..Len(log) :
           /\ a < b
           /\ log[a].e = "reject" /\ log[a].id = "b1"
           /\ log[b].e = "persist" /\ log[b].id = "a1"
    /\ store["a1"].f.first_name = Str("James")
    /\ store["b1"] = Store0["b1"]
    /\ DocGet(heap, 1, <<"name">>) = Str("There and Back Again")

----------------------------------------------------------------------------

\* the number of resolutions so far (each of them goes through the root document)
Resolutions == Cardinality({a \in 1..Len(log) : log[a].e = "resolve"})

\* C27: at every point of a run the queue holds each document at most once (the same object,
\* compared by identity), however many items and path segments go through it; what it holds are
\* documents of the run, the root first
C27_QueueHoldsOnce ==
    /\ \A n, m \in 1..Len(save_queue) : save_queue[n] = save_queue[m] => n = m
    /\ \A n \in 1..Len(save_queue) : save_queue[n] \in 1..Len(heap)
    /\ save_queue # <<>> => save_queue[1] = 1

\* two items went through the book and through the author it refers to; the queue holds each once
C27_Witness ==
    /\ pc = "done"
    /\ root_id = "b1"
    /\ Len(patch) = 2
    /\ patch[1].path = P2("author", "first_name")
    /\ patch[2].path = P2("author", "last_name")
    /\ Resolutions = 2
    /\ save_queue = <<1, 2>>

----------------------------------------------------------------------------

\* the call has failed in the resolution or the execution of an item
ItemFailed == pc = "failed" /\ err \notin {"validation", "Patch failed rule check", SaveError}

\* C28: when an item of the patch has failed the call has committed nothing to the store: no
\* document of the queue was saved, and the store holds no document that an earlier item of the
\* patch created; it is the store the call started with
C28_NothingCommitted ==
    ItemFailed =>
        /\ \A h \in 1..Len(heap) : Settled(h) = {}
        /\ \A a \in Creations(log) : log[a].id \notin DOMAIN store
        /\ store = Store0

----------------------------------------------------------------------------

\* the verbs that write at their path
WritingVerbs == {"add", "remove", "replace", "copy", "move"}

\* a handler is about to write at the path of patch[i]
AboutToWrite == pc = "exec" /\ patch[i].op \in WritingVerbs

\* C29: with every verb and under every setting of the options nothing is written through a
\* reference that is not loaded: when the path of an item goes on beyond a reference, the
\* document referred to has been loaded by the time the handler writes, and the record the
\* handler writes by names that document as the owner, not the referring document with a path
\* below the reference
C29_NoWriteThroughReference ==
    AboutToWrite =>
        \A k \in 1..(Len(CurParts) - 1) :
            /\ ~UnloadedAt(heap, k)
            /\ NodeAt(heap, k).k = "doc" /\ CurPath \in DOMAIN path_info =>
                   /\ OwnerPos(heap, Len(CurParts)) >= k
                   /\ path_info[CurPath].root = OwnerAt(heap, Len(CurParts))

----------------------------------------------------------------------------

\* the loads of a stored document so far
LoadsOf(id) == {a \in 1..Len(log) : log[a].e = "load" /\ log[a].id = id}

\* the loaded documents a value holds: itself, or those among its elements
DocsIn(v) ==
    CASE v.k = "doc" -> {v.h}
      [] v.k = "arr" -> {v.items[m].h : m \in {q \in 1..Len(v.items) : v.items[q].k = "doc"}}
      [] OTHER -> {}

\* a resolution that comes to a reference, or to an array of references, that is populated
\* already loads nothing for it: the place holds the same loaded objects afterwards, these are
\* as the earlier items left them, and the one on the path is the owner of what follows
C30_Resolve ==
    pc = "resolve" /\ Canonical =>
        \A k \in 1..Len(CurParts) :
            /\ NodeAt(heap, k).k = "doc" =>
                   /\ NodeAt(heap', k) = NodeAt(heap, k)
                   /\ heap'[NodeAt(heap, k).h] = heap[NodeAt(heap, k).h]
                   /\ \A a \in NewLoads : log'[a].id # heap[NodeAt(heap, k).h].id
                   /\ pc' = "exec" /\ CurPath \in DOMAIN path_info' /\ OwnerPos(heap', Len(CurParts)) = k
                          => path_info'[CurPath].root = NodeAt(heap, k).h
            /\ NodeAt(heap, k).k = "arr" /\ NodeAt(heap, k).ref # "none" /\ DocsIn(NodeAt(heap, k)) # {} =>
                   /\ \A m \in 1..Len(NodeAt(heap, k).items) :
                          NodeAt(heap, k).items[m].k = "doc" => NodeAt(heap', k).items[m] = NodeAt(heap, k).items[m]
                   /\ \A h \in DocsIn(NodeAt(heap, k)) : heap'[h] = heap[h]

\* every loaded object comes from one load, and no item loads a stored document twice
C30_Loads ==
    /\ \A a, b \in 1..Len(log) : log[a].e = "load" /\ log[b].e = "load" /\ log[a].h = log[b].h => a = b
    /\ \A h \in 2..Len(heap) : \E a \in 1..Len(log) : log[a].e \in {"load", "create"} /\ log[a].h = h
    /\ \A a, b \in 1..Len(log) :
           log[a].e = "load" /\ log[b].e = "load" /\ log[a].i = log[b].i /\ log[a].id = log[b].id => a = b

\* C30: within a run a reference or an array of references that is populated is not loaded
\* again: items whose paths share it cause one load, and each of them finds the same loaded
\* object there and uses it as owner
C30_PopulatedOnce == []C30_Loads /\ [][C30_Resolve]_vars

\* two items went through the books of the series: the first populated the array and renamed
\* the book, the second found the array populated, and the book was loaded once
C30_Witness ==
    /\ pc = "done"
    /\ root_id = "s1"
    /\ Len(patch) = 2
    /\ patch[1] = Item("replace", P3("books", "0", "name"), NoFrom, Str("Return Of The King"))
    /\ patch[2] = Item("remove", P2("books", "0"), NoFrom, Absent)
    /\ Cardinality(LoadsOf("b1")) = 1
    /\ store["b1"].f.name = Str("Return Of The King")

----------------------------------------------------------------------------

\* the document was changed by a handler of this call and the change is not saved yet
Mutated(hp, h) == hp[h].dirty # {}

\* the loop over the patch is over and save() has not started
LoopOver == pc = "dispatch" /\ i > Len(patch)

\* when the loop is over every queued document is one a handler changed
C31_Queue == LoopOver => \A n \in 1..Len(save_queue) : Mutated(heap, save_queue[n])

\* save() stores a document only if a handler changed it
C31_Persist ==
    \A n \in pending \ pending' :
        log'[Len(log')].e = "persist" => Mutated(heap, save_queue[n])

\* C31: the save queue holds only documents changed during the call: a document that was only
\* passed through or loaded (by a test, by an item that failed, the root when every change
\* landed on a referenced document or a handler skipped the change) is not queued and is not
\* saved
C31_QueueHoldsMutated == []C31_Queue /\ [][C31_Persist]_vars

----------------------------------------------------------------------------

\* the pointers the handler of patch[i] hands to jsonPointerToMongoosePath
Converted ==
    {patch[i].path} \cup (IF patch[i].op \in {"move", "copy"} THEN {patch[i].from} ELSE {})

\* what a translation that rejects its input would yield
InvalidPointer == <<"InvalidPointer">>

\* the segments of a pointer that starts with the separator, joined by dots
DottedSegments(p) == join(Tail(split(p, "/")), ".")

\* every well-formed pointer a handler converts comes out as its segments joined by dots
C33_WellFormed ==
    pc = "exec" => \A p \in Converted : WellFormed(p) => jsonPointerToMongoosePath(p) = DottedSegments(p)

\* C33: the translation of a pointer /s1/s2/.../sn is s1.s2. ... .sn, and a malformed pointer,
\* such as one that does not start with the separator, is rejected as invalid
C33_PointerTranslation ==
    pc = "exec" =>
        \A p \in Converted :
            jsonPointerToMongoosePath(p) = IF WellFormed(p) THEN DottedSegments(p) ELSE InvalidPointer

----------------------------------------------------------------------------

\* the rules the plugin of the type of document h is registered with hold a rule for the
\* pointer rel (relative to h) and the verb op
OwnRuleHit(h, rel, op) ==
    \E r \in 1..Len(ModelRules(heap[h].type)) :
        /\ jsonPointerToMongoosePath(ModelRules(heap[h].type)[r].path) = rel
        /\ op \in ModelRules(heap[h].type)[r].op

\* the handler of patch[i] is about to write a field of a referenced document that the rules
\* of that document's own type blacklist
ForeignRuleHit ==
    /\ pc = "exec"
    /\ patch[i].op \in {"replace", "add"}
    /\ CurPath \in DOMAIN path_info
    /\ path_info[CurPath].root # 1
    /\ OwnRuleHit(path_info[CurPath].root, path_info[CurPath].relative_path, patch[i].op)

\* the call is past its rule check exactly when the rules in the options of the root let the
\* patch through, and it failed at the rule check exactly when they do not
C34_Decision ==
    /\ err = "Patch failed rule check" => ~RulesCheck(options.rules, options.rules_mode, patch)
    /\ pc \notin {"start", "rules"} /\ err \notin {"validation", "Patch failed rule check"}
           => RulesCheck(options.rules, options.rules_mode, patch)

\* the write to the referenced document goes through
C34_Write ==
    ForeignRuleHit =>
        /\ pc' = "dispatch"
        /\ DocGet(heap', path_info[CurPath].root, path_info[CurPath].relative_path) = Member(patch[i].value)

\* C34: whether a call is let through depends on the patch and on the rules configured for the
\* root only; the rules of the types of referenced documents are not consulted, so an item that
\* writes a field of a referenced document which that document's own rules blacklist is applied
C34_RootRulesOnly == []C34_Decision /\ [][C34_Write]_vars

\* called on the book, the patch replaced the publisher of the author, a field the rules of
\* Author blacklist, and the author was saved with it
C34_Witness ==
    /\ pc = "done"
    /\ root_id = "b1"
    /\ \E n \in 1..Len(patch) : patch[n] = Item("replace", P2("author", "publisher"), NoFrom, Str("Random House"))
    /\ store["a1"].f.publisher = Str("Random House")

----------------------------------------------------------------------------

\* the stored form of what the root holds at a dotted path
FieldAt(hp, path) == Depopulate(hp, DocGet(hp, 1, path))

\* the rules of the call that blacklist every verb
FullRules == {r \in 1..Len(options.rules) : options.rules[r].op = Verbs}

\* the call got past its rule check
PastRuleCheck == pc \notin {"start", "rules"} /\ err \notin {"validation", "Patch failed rule check"}

\* after a successful call under a blacklist the root holds at every blacklisted pointer what it
\* held before the call, in memory and in the store
C35_Unchanged ==
    Blacklisting /\ pc = "done" =>
        \A r \in FullRules :
            /\ FieldAt(heap, jsonPointerToMongoosePath(options.rules[r].path))
                   = FieldAt(Heap0, jsonPointerToMongoosePath(options.rules[r].path))
            /\ FieldAt(<<LoadDoc(store, root_id)>>, jsonPointerToMongoosePath(options.rules[r].path))
                   = FieldAt(Heap0, jsonPointerToMongoosePath(options.rules[r].path))

\* a patch with an item whose pointer translates to the native path of a blacklisted pointer
\* does not get past the rule check
C35_SameDecision ==
    Blacklisting /\ PastRuleCheck =>
        \A r \in FullRules : \A n \in 1..Len(patch) :
            jsonPointerToMongoosePath(patch[n].path) # jsonPointerToMongoosePath(options.rules[r].path)

\* C35: under a blacklist no field a blacklisted pointer addresses has changed after a
\* successful call, however the pointer of an item is spelled: pointers with the same native
\* path (/a/b and /a.b) get the same decision
C35_SpellingIndependent == C35_Unchanged /\ C35_SameDecision

----------------------------------------------------------------------------

\* the documents in memory when the call starts: the root alone
LoadedBefore == {1}

----------------------------------------------------------------------------

\* C37: when a handler has called next(), the path populatePath resolved for the item is the
\* path the verb's method addresses (item.path read by the method), and the verb run on the
\* resolved path passes the rules of the call
C37_ResolvedIsExecuted ==
    pc = "exec" /\ handler # 0 =>
        /\ jsonPointerToMongoosePath(next.path) = CurPath
        /\ rulesPass(options, <<[patch[i] EXCEPT !.op = next.op, !.path = next.path]>>)

----------------------------------------------------------------------------

\* setPath(path, ...) finds a record for the path
Memoized(path) == path \in DOMAIN path_info

\* C39: when the method of a verb is about to run, every path it hands to setPath has a record
\* in path_info: the path of replace and copy, the path of add and remove whose parent is not
\* an array, and the path and the from of move
C39_LookupNeverMisses ==
    pc = "exec" =>
        /\ next.op \in {"replace", "copy", "move"} => Memoized(CurPath)
        /\ next.op \in {"add", "remove"} /\ PlainParent => Memoized(CurPath)
        /\ next.op = "move" /\ Memoized(CurPath) => Memoized(CurFrom)

----------------------------------------------------------------------------

\* the value the first k parts of an absolute path lead to from the root document
NodeOn(hp, a, k) == IF k = 0 THEN DocRef(1) ELSE DocGet(hp, 1, join(slice(split(a, "."), 0, k), "."))

\* the number of parts of an absolute path ('' has none)
PartsIn(a) == IF a = <<>> THEN 0 ELSE Len(split(a, "."))

\* the position on an absolute path of the last loaded document before its end (0: the root)
NearestLoaded(hp, a) ==
    CHOOSE q \in 0..PartsIn(a) :
        /\ q = 0 \/ q < PartsIn(a)
        /\ NodeOn(hp, a, q).k = "doc"
        /\ \A r \in (q + 1)..(PartsIn(a) - 1) : NodeOn(hp, a, r).k # "doc"

\* the record kept under the key a names a as its absolute path, the nearest loaded document on
\* the way to a as its root and the rest of a as its relative path, and the relative path read
\* from that root is the value the absolute path reads from the root document
Consistent(hp, pinfo, a) ==
    /\ pinfo[a].absolute_path = a
    /\ pinfo[a].root = NodeOn(hp, a, NearestLoaded(hp, a)).h
    /\ pinfo[a].relative_path = join(slice(split(a, "."), NearestLoaded(hp, a), PartsIn(a)), ".")
    /\ a # <<>> => DocGet(hp, pinfo[a].root, pinfo[a].relative_path) = DocGet(hp, 1, a)

\* C38: when populatePath has returned, every record of path_info is consistent: its root is the
\* nearest loaded document on the path (the same across nested objects and arrays of them, a new
\* one after a reference, a loaded document or an element of an array of references), and its
\* relative path from that root addresses what its absolute path addresses from the root document
C38_RecordsConsistent ==
    pc = "exec" => \A a \in DOMAIN path_info : Consistent(heap, path_info, a)

\* a path through an array of references was resolved: the record of the element has the
\* referring document as root, the record of the field behind it has the element as root
C38_Witness ==
    /\ pc = "exec"
    /\ \E a \in DOMAIN path_info :
        /\ PartsIn(a) = 3
        /\ NodeOn(heap, a, 1).k = "arr" /\ NodeOn(heap, a, 1).ref # "none"
        /\ NearestLoaded(heap, a) = 2
        /\ path_info[a].root # 1
        /\ join(slice(split(a, "."), 0, 2), ".") \in DOMAIN path_info
        /\ path_info[join(slice(split(a, "."), 0, 2), ".")].root = 1

----------------------------------------------------------------------------

\* the handles this call has persisted
Persisted == {log[a].h : a \in {b \in 1..Len(log) : log[b].e = "persist"}}

\* from the start of its loop to the end of its saves the call works on a save_queue it assigned
\* itself
C32_OwnQueue ==
    pc \in {"dispatch", "handler", "resolve", "exec", "saving"} \/ pending # {} => calls.sq_of = calls.cur

\* the verb's method runs on records the resolution of this call built
C32_OwnRecords == pc = "exec" => calls.pi_of = calls.cur

\* a call that returns with autosave on has persisted the documents of its queue and no other
C32_PersistsOwn ==
    pc = "done" /\ options.autosave => Persisted = {save_queue[n] : n \in 1..Len(save_queue)}

\* C32: of two calls, on one document's entity or on two, that run one after the other or take
\* turns at their awaits, each works on the save_queue and the path_info it created itself: it
\* persists the documents of its own queue and its verbs read the records of its own resolution
C32_FreshPerCall == C32_OwnQueue /\ C32_OwnRecords /\ C32_PersistsOwn

\* one call waits for the saves it issued while the other, on the same entity, is between its
\* resolution and its verb, each with a queue and records of its own
C32_Witness ==
    /\ Len(calls.parked) = 1
    /\ pc = "exec"
    /\ calls.parked[1].pc = "saving" /\ calls.parked[1].pending # {}
    /\ calls.parked[1].root_id = root_id
    /\ Len(save_queue) > 1 /\ Len(calls.parked[1].save_queue) > 1
    /\ calls.pi_of = calls.cur /\ calls.parked[1].pi_of = Other(calls.cur)

====
